---- MODULE Spec2Model ----
(***************************************************************************)
(* Header-based authentication of the TNPG payment gateway:                *)
(*   gateway/services/auth-helper.js     (AuthHelper)                      *)
(*   gateway/services/gateway-client.js  (GatewayClient)                   *)
(*   gateway/services/signature.js       (SignatureService)                *)
(*   gateway/middleware/auth.js          (signature middleware, routes)    *)
(*   gateway/middleware/validator.js     (request validation)              *)
(*   gateway/server.js                   (TransactionStore)                *)
(*   gateway-php/routes, middleware      (PHP routes, RateLimit)           *)
(*   unnamed/part_001                    (PHP Transaction model)           *)
(*                                                                         *)
(* Specifications                                                          *)
(*   Spec           a signed request, a tamperer, validateSignature        *)
(*   SpecClient     the gateway client's three operations                  *)
(*   SpecSignature  generateSignature applied to two field tuples          *)
(*   SpecRoundTrip  signed and generated requests given to the verifier    *)
(*   SpecServer     the signature middleware and POST /api/payment/ipn     *)
(*   SpecVerify     POST /api/payment/verify                               *)
(*   SpecHost       the host derivation of generateGatewayHeaders          *)
(*   SpecPayload    SignatureService.generateSignature of two payloads     *)
(*   SpecSession    session tokens of SignatureService                     *)
(*   SpecLimiter    the PHP rate limiter, two processes                    *)
(*   SpecStore      the PHP routes and Transaction model, two processes    *)
(*                                                                         *)
(* Modelling conventions                                                   *)
(*  - A JavaScript value that can sit in a header or a credential is a     *)
(*    record [tag, key, msg]:                                              *)
(*      tag "text"                a string literal, msg is its text        *)
(*      tag "undefined"           the value undefined                      *)
(*      tag "hmac-sha256-base64"  base64(HMAC-SHA256(key, msg)), 44 chars  *)
(*      tag "hmac-sha256-hex"     hex(HMAC-SHA256(key, msg)), 64 chars     *)
(*      tag "SHA-256="            "SHA-256=" + base64(SHA-256(msg))        *)
(*    HMAC-SHA256 and SHA-256 are symbolic (collision free): two hash      *)
(*    values are the same string exactly when key and message are the      *)
(*    same, and no literal text equals a hash value.                       *)
(*  - The clock counts milliseconds since 2026-02-09T07:47:49.000Z; epoch  *)
(*    seconds are counted from the same instant.                           *)
(*  - An evaluation that can throw yields the outcome "throw"; booleans    *)
(*    returned next to it are the outcomes "true" and "false".             *)
(***************************************************************************)
EXTENDS Integers, Sequences, FiniteSets, TLC

VARIABLES now, req, orig, tampered, verdict, seen, cfg, pending, sent, outcome,
          lastGen, signing, exchange, transactions, ipn, verify, derived,
          payloadSigning, session, dbFile, storeProcs, limitsFile, limiterProcs,
          limiterLog, storeLog

vars == <<now, req, orig, tampered, verdict, seen, cfg, pending, sent, outcome,
          lastGen, signing, exchange, transactions, ipn, verify, derived,
          payloadSigning, session, dbFile, storeProcs, limitsFile, limiterProcs>>

verifierVars == <<req, orig, tampered, verdict, seen>>
clientVars == <<cfg, pending, sent, outcome, lastGen>>
phpVars == <<dbFile, storeProcs, limitsFile, limiterProcs, limiterLog, storeLog>>
signerVars == <<signing, derived, payloadSigning, session>>
serverVars == <<exchange, transactions, ipn, verify, phpVars>>

(***************************************************************************)
(* Bounds                                                                  *)
(***************************************************************************)
\* number of clock steps a behaviour may take
MaxTicks == 2

\* calls of one client operation that may await their response at a time
MaxInFlight == 1

\* seconds the clock of the PHP gateway may advance in a behaviour
MaxSeconds == 3

\* requests the PHP gateway may be handed in a behaviour
MaxCalls == 4

\* validateTimestamp(timestamp, maxAgeSeconds = 300)
DefaultMaxAgeSeconds == 300

\* clock steps, in milliseconds: one second, and the length of the replay window
Steps == {1000, DefaultMaxAgeSeconds * 1000}

\* the instants the verifier's clock can show: at most MaxTicks steps from 0
Instants ==
  UNION {{a * 1000 + b * DefaultMaxAgeSeconds * 1000 : b \in 0..(MaxTicks - a)} :
           a \in 0..MaxTicks}

\* sub-second part of the signer's clock when it stamps a request
SubMs == {0, 500}

\* the instants a signer's clock can show
StampInstants == {i + s : i \in Instants, s \in SubMs}

(***************************************************************************)
(* JavaScript values                                                       *)
(***************************************************************************)
JsText(s) == [tag |-> "text", key |-> "", msg |-> s]
Undefined == [tag |-> "undefined", key |-> "", msg |-> ""]

\* Falsy, had the check been written against undefined only: the empty
\* string passes
Falsy_UndefinedOnly(v) == v.tag = "undefined"

\* !v for the values a header or a credential can hold
Falsy(v) == v.tag = "undefined" \/ (v.tag = "text" /\ v.msg = "")

\* `${v}` in a template literal
TemplateStr(v) ==
  CASE v.tag = "text" -> v.msg
    [] v.tag = "undefined" -> "undefined"

\* Buffer.from(v).length for a string v
ByteLength(v) ==
  CASE v.tag = "text" -> Len(v.msg)
    [] v.tag = "hmac-sha256-base64" -> 44
    [] v.tag = "hmac-sha256-hex" -> 64
    [] v.tag = "SHA-256=" -> 52

(***************************************************************************)
(* Date formatting and parsing                                             *)
(***************************************************************************)
DigitChars == <<"0", "1", "2", "3", "4", "5", "6", "7", "8", "9">>
D2(n) == DigitChars[(n \div 10) + 1] \o DigitChars[(n % 10) + 1]
D3(n) == DigitChars[(n \div 100) + 1] \o D2(n % 100)

\* seconds after midnight of the clock's origin, 07:47:49
OriginSecondOfDay == 7 * 3600 + 47 * 60 + 49

ClockText(ms) ==
  LET sod == OriginSecondOfDay + (ms \div 1000)
  IN D2(sod \div 3600) \o ":" \o D2((sod % 3600) \div 60) \o ":" \o D2(sod % 60)

\* Date.prototype.toUTCString: whole seconds, the milliseconds are dropped
ToUTCString(ms) == "Mon, 09 Feb 2026 " \o ClockText(ms) \o " GMT"

\* Date.prototype.toISOString
ToISOString(ms) == "2026-02-09T" \o ClockText(ms) \o "." \o D3(ms % 1000) \o "Z"

NaN == [nan |-> TRUE, ms |-> 0]
Millis(ms) == [nan |-> FALSE, ms |-> ms]

\* DateParse, had it read ISO-8601 text only
DateParse_IsoOnly(text) ==
  IF \E t \in StampInstants : ToISOString(t) = text
  THEN Millis(CHOOSE t \in StampInstants : ToISOString(t) = text)
  ELSE NaN

\* new Date(text).getTime(): the instant whose RFC-1123 or ISO-8601 text this
\* is, NaN for any other text
DateParse(text) ==
  IF \E t \in StampInstants : ToISOString(t) = text
  THEN Millis(CHOOSE t \in StampInstants : ToISOString(t) = text)
  ELSE IF \E t \in StampInstants : ToUTCString(t) = text
  THEN Millis(((CHOOSE t \in StampInstants : ToUTCString(t) = text) \div 1000) * 1000)
  ELSE NaN

(***************************************************************************)
(* Request bodies and JSON.stringify                                       *)
(***************************************************************************)
\* A body is undefined or an object: the sequence of its properties in
\* insertion order, each [key, type, lit, obj] with type "string", "number",
\* "undefined" or "object"; lit is the string's text or the number's decimal
\* text, obj the properties of a nested object.
UndefinedBody == [defined |-> FALSE, props |-> << >>]
ObjectBody(props) == [defined |-> TRUE, props |-> props]
Prop(k, t, l) == [key |-> k, type |-> t, lit |-> l, obj |-> << >>]
ObjectProp(k, props) == [key |-> k, type |-> "object", lit |-> "", obj |-> props]

Quote(s) == "\"" \o s \o "\""

\* an array-valued property; its elements are kept, in order, as properties
\* without a key
ArrayProp(k, items) == [key |-> k, type |-> "array", lit |-> "", obj |-> items]

RECURSIVE JsonMembers(_, _)
RECURSIVE JsonItems(_, _)

\* JSON.stringify of one property
JsonMember(p) ==
  CASE p.type = "string" -> Quote(p.key) \o ":" \o Quote(p.lit)
    [] p.type = "number" -> Quote(p.key) \o ":" \o p.lit
    [] p.type = "object" -> Quote(p.key) \o ":{" \o JsonMembers(p.obj, TRUE) \o "}"
    [] p.type = "array" -> Quote(p.key) \o ":[" \o JsonItems(p.obj, TRUE) \o "]"

\* the elements of an array, comma separated, in the array's order
JsonItems(items, first) ==
  IF items = << >> THEN ""
  ELSE (IF first THEN "" ELSE ",")
         \o (CASE Head(items).type = "string" -> Quote(Head(items).lit)
                [] Head(items).type = "number" -> Head(items).lit
                [] Head(items).type = "object" ->
                     "{" \o JsonMembers(Head(items).obj, TRUE) \o "}"
                [] Head(items).type = "array" ->
                     "[" \o JsonItems(Head(items).obj, TRUE) \o "]")
         \o JsonItems(Tail(items), FALSE)

\* the members of an object, comma separated; a property whose value is
\* undefined is left out
JsonMembers(props, first) ==
  IF props = << >> THEN ""
  ELSE IF Head(props).type = "undefined" THEN JsonMembers(Tail(props), first)
  ELSE (IF first THEN "" ELSE ",") \o JsonMember(Head(props))
         \o JsonMembers(Tail(props), FALSE)

\* JSON.stringify(requestBody) of an object
JsonStringify(body) == "{" \o JsonMembers(body.props, TRUE) \o "}"

(***************************************************************************)
(* Node's crypto primitives                                                *)
(***************************************************************************)
Throw == [tag |-> "throw", key |-> "", msg |-> ""]

\* crypto.createHmac('sha256', key).update(msg).digest('base64'); createHmac
\* throws a TypeError for a key that is undefined
HmacSha256Base64(key, msg) ==
  IF key.tag = "undefined" THEN Throw
  ELSE [tag |-> "hmac-sha256-base64", key |-> TemplateStr(key), msg |-> msg]

\* crypto.createHash('sha256').update(s).digest('base64')
Sha256Base64(s) == [tag |-> "sha256-base64", key |-> "", msg |-> s]

\* DigestHeader, had it returned the bare digest
DigestHeader_NoPrefix(d) == d

\* `SHA-256=${digest}`
DigestHeader(d) == [tag |-> "SHA-256=", key |-> "", msg |-> d.msg]

\* crypto.timingSafeEqual(Buffer.from(a), Buffer.from(b)): Buffer.from throws
\* a TypeError for undefined, timingSafeEqual throws a RangeError when the
\* byte lengths differ, else every byte is compared
TimingSafeEqual(a, b) ==
  IF a.tag = "undefined" \/ b.tag = "undefined" THEN "throw"
  ELSE IF ByteLength(a) # ByteLength(b) THEN "throw"
  ELSE IF a = b THEN "true" ELSE "false"

(***************************************************************************)
(* AuthHelper                                                              *)
(***************************************************************************)
\* SignatureString, had the api key been left out of it
SignatureString_NoApiKey(timestamp, host, targetApi, merchantId, apiKey) ==
  TemplateStr(timestamp) \o "|" \o TemplateStr(host) \o "|" \o TemplateStr(targetApi)
    \o "|" \o TemplateStr(merchantId)

\* the canonical signature string timestamp|host|targetApi|merchantId|apiKey
SignatureString(timestamp, host, targetApi, merchantId, apiKey) ==
  TemplateStr(timestamp) \o "|" \o TemplateStr(host) \o "|" \o TemplateStr(targetApi)
    \o "|" \o TemplateStr(merchantId) \o "|" \o TemplateStr(apiKey)

generateSignature(timestamp, host, targetApi, merchantId, apiKey, apiSecret) ==
  HmacSha256Base64(apiSecret,
                   SignatureString(timestamp, host, targetApi, merchantId, apiKey))

\* generateDigest, had it hashed String(requestBody), "[object Object]" for
\* every object
generateDigest_ToString(requestBody) ==
  IF ~requestBody.defined THEN Throw
  ELSE DigestHeader(Sha256Base64("[object Object]"))

\* JSON.stringify(undefined) is undefined, and Hash.update(undefined) throws
generateDigest(requestBody) ==
  IF ~requestBody.defined THEN Throw
  ELSE DigestHeader(Sha256Base64(JsonStringify(requestBody)))

\* validateTimestampAt, had the upper comparison been strict
validateTimestampAt_Strict(timestamp, maxAgeSeconds, currentTime) ==
  LET requestTime == DateParse(TemplateStr(timestamp))
  IN /\ ~requestTime.nan
     /\ currentTime - requestTime.ms >= 0
     /\ currentTime - requestTime.ms < maxAgeSeconds * 1000

\* validateTimestampAt, had only the age's upper limit been checked
validateTimestampAt_NoLower(timestamp, maxAgeSeconds, currentTime) ==
  LET requestTime == DateParse(TemplateStr(timestamp))
  IN /\ ~requestTime.nan
     /\ currentTime - requestTime.ms <= maxAgeSeconds * 1000

\* validateTimestamp(timestamp, maxAgeSeconds) with Date.now() = currentTime;
\* ageSeconds = (currentTime - requestTime) / 1000 is compared without
\* rounding, and every comparison with NaN is false
validateTimestampAt(timestamp, maxAgeSeconds, currentTime) ==
  LET requestTime == DateParse(TemplateStr(timestamp))
  IN /\ ~requestTime.nan
     /\ currentTime - requestTime.ms >= 0
     /\ currentTime - requestTime.ms <= maxAgeSeconds * 1000

validateTimestamp(timestamp, currentTime) ==
  validateTimestampAt(timestamp, DefaultMaxAgeSeconds, currentTime)

(***************************************************************************)
(* Header sets                                                             *)
(***************************************************************************)
\* A headers argument is undefined or an object: a function from header
\* names (case-sensitive property names) to values.
UndefinedHeaders == [defined |-> FALSE, map |-> << >>]
HeaderObject(map) == [defined |-> TRUE, map |-> map]

\* headers[name]; a property the object does not have reads as undefined
Property(headers, name) ==
  IF name \in DOMAIN headers.map THEN headers.map[name] ELSE Undefined

SignedNames ==
  {"x-tnpg-timestamp", "x-tnpg-host", "x-tnpg-target-api", "x-tnpg-merchant-id",
   "x-tnpg-api-key"}
RequiredNames == SignedNames \cup {"x-tnpg-signature", "x-tnpg-digest"}

\* the body of validateSignature's outer try block
validateSignatureTry(headers, requestBody, apiSecret, currentTime) ==
  IF ~headers.defined THEN "throw"   \* destructuring undefined: TypeError
  ELSE
    LET timestamp == Property(headers, "x-tnpg-timestamp")
        host == Property(headers, "x-tnpg-host")
        targetApi == Property(headers, "x-tnpg-target-api")
        merchantId == Property(headers, "x-tnpg-merchant-id")
        apiKey == Property(headers, "x-tnpg-api-key")
        providedSignature == Property(headers, "x-tnpg-signature")
        providedDigest == Property(headers, "x-tnpg-digest")
        expectedSignature ==
          generateSignature(timestamp, host, targetApi, merchantId, apiKey, apiSecret)
        expectedDigest == generateDigest(requestBody)
        signatureValid ==
          TimingSafeEqual(providedSignature, expectedSignature) = "true"
        digestValid == TimingSafeEqual(providedDigest, expectedDigest) = "true"
    IN IF \/ Falsy(timestamp) \/ Falsy(host) \/ Falsy(targetApi) \/ Falsy(merchantId)
          \/ Falsy(apiKey) \/ Falsy(providedSignature) \/ Falsy(providedDigest)
       THEN "false"
       ELSE IF ~validateTimestamp(timestamp, currentTime) THEN "false"
       ELSE IF expectedSignature = Throw THEN "throw"
       ELSE IF expectedDigest = Throw THEN "throw"
       ELSE IF signatureValid /\ digestValid THEN "true" ELSE "false"

\* validateSignature, had it no outer catch
validateSignature_NoCatch(headers, requestBody, apiSecret, currentTime) ==
  validateSignatureTry(headers, requestBody, apiSecret, currentTime)

\* validateSignature(headers, requestBody, apiSecret) with Date.now() =
\* currentTime: the outer catch turns every exception into false
validateSignature(headers, requestBody, apiSecret, currentTime) ==
  LET r == validateSignatureTry(headers, requestBody, apiSecret, currentTime)
  IN IF r = "throw" THEN "false" ELSE r

(***************************************************************************)
(* AuthHelper.generateGatewayHeaders                                       *)
(***************************************************************************)
\* A configured host is undefined or a string, kept as the sequence of its
\* characters so that its prefixes can be tested.
UndefinedHost == [defined |-> FALSE, chars |-> << >>]
HostString(chars) == [defined |-> TRUE, chars |-> chars]

RECURSIVE Concat(_)
\* the string made of a sequence of characters
Concat(chars) == IF chars = << >> THEN "" ELSE Head(chars) \o Concat(Tail(chars))

\* String.prototype.startsWith
StartsWith(chars, prefix) ==
  Len(chars) >= Len(prefix) /\ SubSeq(chars, 1, Len(prefix)) = prefix

\* /^(localhost|127\.0\.0\.1|192\.168\.|10\.|172\.(1[6-9]|2[0-9]|3[01])\.)/
IsLocalIp(chars) ==
  \/ StartsWith(chars, <<"l", "o", "c", "a", "l", "h", "o", "s", "t">>)
  \/ StartsWith(chars, <<"1", "2", "7", ".", "0", ".", "0", ".", "1">>)
  \/ StartsWith(chars, <<"1", "9", "2", ".", "1", "6", "8", ".">>)
  \/ StartsWith(chars, <<"1", "0", ".">>)
  \/ /\ StartsWith(chars, <<"1", "7", "2", ".">>)
     /\ Len(chars) >= 7
     /\ \/ chars[5] = "1" /\ chars[6] \in {"6", "7", "8", "9"}
        \/ chars[5] = "2" /\ chars[6] \in {"0", "1", "2", "3", "4", "5", "6", "7", "8", "9"}
        \/ chars[5] = "3" /\ chars[6] \in {"0", "1"}
     /\ chars[7] = "."

DefaultHostChars ==
  <<"a", "p", "i", "-", "s", "t", "a", "g", "e", ".", "t", "n", "e", "x", "t", "p", "a",
    "y", ".", "c", "o", "m">>

\* the host header: the configured host, 'api-stage.tnextpay.com' when there
\* is none, with a scheme put in front unless it has one
GatewayHost(configHost) ==
  LET baseHost == IF configHost.defined /\ configHost.chars # << >>
                  THEN configHost.chars ELSE DefaultHostChars
  IN IF \/ StartsWith(baseHost, <<"h", "t", "t", "p", ":", "/", "/">>)
        \/ StartsWith(baseHost, <<"h", "t", "t", "p", "s", ":", "/", "/">>)
     THEN Concat(baseHost)
     ELSE IF IsLocalIp(baseHost) THEN "http://" \o Concat(baseHost)
     ELSE "https://" \o Concat(baseHost)

ThrowError(message) == [threw |-> TRUE, error |-> message, headers |-> UndefinedHeaders]
Return(headers) == [threw |-> FALSE, error |-> "", headers |-> headers]

\* generateGatewayHeaders, had it not checked the api secret
generateGatewayHeaders_NoSecretCheck(targetApi, requestBody, config, currentTime) ==
  LET timestamp == JsText(ToUTCString(currentTime))
      host == JsText(GatewayHost(config.host))
      targetApiWithMethod == JsText("POST " \o targetApi)
      signature ==
        generateSignature(timestamp, host, targetApiWithMethod, config.merchantId,
                          config.apiKey, config.apiSecret)
      digest == generateDigest(requestBody)
  IN IF Falsy(config.merchantId)
     THEN ThrowError("MERCHANT_ID is required for gateway authentication")
     ELSE IF Falsy(config.apiKey)
     THEN ThrowError("API_KEY is required for gateway authentication")
     ELSE IF signature = Throw \/ digest = Throw THEN ThrowError("TypeError")
     ELSE Return(HeaderObject(
            [n \in {"X-TNPG-TIMESTAMP", "X-TNPG-HOST", "X-TNPG-TARGET-API",
                    "X-TNPG-MERCHANT-ID", "X-TNPG-API-KEY", "X-TNPG-SIGNATURE",
                    "X-TNPG-DIGEST", "Content-Type"} |->
               CASE n = "X-TNPG-TIMESTAMP" -> timestamp
                 [] n = "X-TNPG-HOST" -> host
                 [] n = "X-TNPG-TARGET-API" -> targetApiWithMethod
                 [] n = "X-TNPG-MERCHANT-ID" -> config.merchantId
                 [] n = "X-TNPG-API-KEY" -> config.apiKey
                 [] n = "X-TNPG-SIGNATURE" -> signature
                 [] n = "X-TNPG-DIGEST" -> digest
                 [] n = "Content-Type" -> JsText("application/json")]))

\* generateGatewayHeaders(targetApi, requestBody, config) with the clock at
\* currentTime: the returned header object, or the error thrown
generateGatewayHeaders(targetApi, requestBody, config, currentTime) ==
  LET timestamp == JsText(ToUTCString(currentTime))
      merchantId == config.merchantId
      apiKey == config.apiKey
      apiSecret == config.apiSecret
      host == JsText(GatewayHost(config.host))
      targetApiWithMethod == JsText("POST " \o targetApi)
      signature ==
        generateSignature(timestamp, host, targetApiWithMethod, merchantId, apiKey,
                          apiSecret)
      digest == generateDigest(requestBody)
  IN IF Falsy(merchantId)
     THEN ThrowError("MERCHANT_ID is required for gateway authentication")
     ELSE IF Falsy(apiKey)
     THEN ThrowError("API_KEY is required for gateway authentication")
     ELSE IF Falsy(apiSecret)
     THEN ThrowError("API_SECRET is required for gateway authentication")
     ELSE IF signature = Throw \/ digest = Throw THEN ThrowError("TypeError")
     ELSE Return(HeaderObject(
            [n \in {"X-TNPG-TIMESTAMP", "X-TNPG-HOST", "X-TNPG-TARGET-API",
                    "X-TNPG-MERCHANT-ID", "X-TNPG-API-KEY", "X-TNPG-SIGNATURE",
                    "X-TNPG-DIGEST", "Content-Type"} |->
               CASE n = "X-TNPG-TIMESTAMP" -> timestamp
                 [] n = "X-TNPG-HOST" -> host
                 [] n = "X-TNPG-TARGET-API" -> targetApiWithMethod
                 [] n = "X-TNPG-MERCHANT-ID" -> merchantId
                 [] n = "X-TNPG-API-KEY" -> apiKey
                 [] n = "X-TNPG-SIGNATURE" -> signature
                 [] n = "X-TNPG-DIGEST" -> digest
                 [] n = "Content-Type" -> JsText("application/json")]))

(***************************************************************************)
(* Values the model draws inputs from                                      *)
(***************************************************************************)
Hosts == {"api-stage.tnextpay.com"}
TargetApis == {"/payment/api/v1/payment-order"}
MerchantIds == {"test-merchant-001"}
\* a signer may also sign an empty api key
ApiKeys == {"pk_test_abc123", ""}
Secrets == {"sk_test_secret456", "sk_other"}

OrderA == ObjectBody(<<Prop("order_id", "string", "A"), Prop("amount", "number", "1000")>>)
\* OrderA with its keys inserted in the other order
OrderASwapped ==
  ObjectBody(<<Prop("amount", "number", "1000"), Prop("order_id", "string", "A")>>)
\* OrderA with one more property, whose value is undefined
OrderANote ==
  ObjectBody(<<Prop("order_id", "string", "A"), Prop("amount", "number", "1000"),
               Prop("note", "undefined", "")>>)
OrderB == ObjectBody(<<Prop("order_id", "string", "B"), Prop("amount", "number", "1000")>>)

SignedBodies == {OrderA, OrderB}
Bodies == {OrderA, OrderASwapped, OrderANote, OrderB, UndefinedBody}

\* a text of 44 characters that is no hash value, and the text of Test 10
Garbage44 == "AAAAAAAAAAAAAAAAAAAAAAAAAAAAAAAAAAAAAAAAAAA="
InvalidSignatureText ==
  "invalid-signature-0123456789abcdef0123456789abcdef0123456789abcdef01234"

\* what a header can be replaced by; Undefined stands for removing it
Replacements(name) ==
  CASE name = "x-tnpg-timestamp" ->
         {JsText(ToUTCString(t)) : t \in Instants} \cup
         {JsText("not-a-date"), JsText(""), Undefined}
    [] name = "x-tnpg-host" -> {JsText("evil.example.com"), JsText(""), Undefined}
    [] name = "x-tnpg-target-api" -> {JsText("/refund"), JsText(""), Undefined}
    [] name = "x-tnpg-merchant-id" -> {JsText("merchant-b"), JsText(""), Undefined}
    [] name = "x-tnpg-api-key" -> {JsText("pk_other"), JsText(""), Undefined}
    [] name = "x-tnpg-signature" ->
         {JsText(Garbage44), JsText(InvalidSignatureText), JsText(""), Undefined}
    [] name = "x-tnpg-digest" ->
         {generateDigest(OrderB), JsText("SHA-256="), JsText(""), Undefined}

(***************************************************************************)
(* The verifying side: a signed request, a tamperer, validateSignature     *)
(***************************************************************************)
\* a request: its headers and body, and what is known of its signing: the
\* secret, whether the timestamp text is a date, and the instant it denotes
NoRequest ==
  [present |-> FALSE, headers |-> UndefinedHeaders, body |-> UndefinedBody,
   secret |-> Undefined, dated |-> FALSE, instant |-> 0]

\* the timestamps a signer can put on a request: toISOString or toUTCString
\* of its clock, or a text that is no date
Stamps ==
  {[text |-> ToISOString(t), dated |-> TRUE, instant |-> t] : t \in StampInstants}
  \cup
  {[text |-> ToUTCString(t), dated |-> TRUE, instant |-> (t \div 1000) * 1000] :
     t \in StampInstants}
  \cup {[text |-> "not-a-date", dated |-> FALSE, instant |-> 0]}

NoVerdict == [called |-> FALSE, result |-> "false", secret |-> Undefined]

\* the header set of test-auth-helper.js, Test 9: lower-case names, the five
\* signed values, generateSignature over them and generateDigest of the body
TestHeaders(timestamp, host, targetApi, merchantId, apiKey, apiSecret, body) ==
  HeaderObject(
    [n \in RequiredNames |->
       CASE n = "x-tnpg-timestamp" -> timestamp
         [] n = "x-tnpg-host" -> host
         [] n = "x-tnpg-target-api" -> targetApi
         [] n = "x-tnpg-merchant-id" -> merchantId
         [] n = "x-tnpg-api-key" -> apiKey
         [] n = "x-tnpg-signature" ->
              generateSignature(timestamp, host, targetApi, merchantId, apiKey, apiSecret)
         [] n = "x-tnpg-digest" -> generateDigest(body)])

\* obj with property name set to v, or removed when v is undefined
WithProperty(headers, name, v) ==
  IF v = Undefined
  THEN HeaderObject([n \in (DOMAIN headers.map) \ {name} |-> headers.map[n]])
  ELSE HeaderObject([n \in (DOMAIN headers.map) \cup {name} |->
                       IF n = name THEN v ELSE headers.map[n]])

\* the last presentation validateSignature accepted; the code keeps no such
\* record, it is the observer's
NoSeen ==
  [accepted |-> FALSE, headers |-> UndefinedHeaders, body |-> UndefinedBody,
   secret |-> Undefined, at |-> 0]

\* the five arguments of generateSignature that make the signature string
Fields(timestamp, host, targetApi, merchantId, apiKey) ==
  [timestamp |-> timestamp, host |-> host, targetApi |-> targetApi,
   merchantId |-> merchantId, apiKey |-> apiKey]

\* two calls of generateSignature under one secret, and what they returned
NoSigning ==
  [called |-> FALSE,
   first |-> Fields(Undefined, Undefined, Undefined, Undefined, Undefined),
   second |-> Fields(Undefined, Undefined, Undefined, Undefined, Undefined),
   secret |-> Undefined, sigFirst |-> Undefined, sigSecond |-> Undefined]

\* a request to a route behind the signature middleware, and its answer:
\* next() was called (passed), or a response was sent
NoExchange ==
  [handled |-> FALSE, nodeEnv |-> "", signature |-> Undefined, body |-> UndefinedBody,
   passed |-> FALSE, status |-> 0, success |-> FALSE, message |-> "", error |-> ""]

\* a callback to POST /api/payment/ipn, its answer, whether the handler put
\* its status on a transaction, and what signature verification it ran
NoIpn ==
  [handled |-> FALSE, signature |-> Undefined, body |-> UndefinedBody, status |-> 0,
   success |-> FALSE, message |-> "", applied |-> FALSE, verification |-> ""]

\* the transaction store before any callback: one order, as /create stores
\* it when the gateway reports no order status
StoredOrders == {"ORDER-12345"}
NewTransaction ==
  [status |-> JsText("PENDING"), statusCode |-> Undefined,
   bankTransactionId |-> Undefined, ipnReceivedAt |-> Undefined,
   ipnData |-> UndefinedBody]
InitialTransactions == [o \in StoredOrders |-> NewTransaction]

\* a request to POST /api/payment/verify and its answer: the validation
\* errors, whether gatewayClient.verifyPayment was called and with which
\* paymentOrderId, and the response
NoVerify ==
  [handled |-> FALSE, merchantId |-> Undefined, body |-> UndefinedBody,
   errors |-> << >>, reached |-> FALSE, paymentOrderId |-> Undefined, status |-> 0,
   success |-> FALSE, message |-> ""]

\* a host handed to the host derivation of generateGatewayHeaders: its scheme
\* and dot-separated labels, and the X-TNPG-HOST value derived from it
NoDerived == [called |-> FALSE, scheme |-> << >>, labels |-> << >>, host |-> ""]

\* two calls of SignatureService.generateSignature: the payloads and the
\* signatures returned for them
NoPayloadSigning ==
  [called |-> FALSE, first |-> UndefinedBody, second |-> UndefinedBody,
   signatures |-> <<Undefined, Undefined>>]

\* a session token of SignatureService: the data and the instant it was
\* generated for, the token as it is presented (and which of its segments
\* was altered), and what verifySessionToken returned for it, and when
NoSession ==
  [issued |-> FALSE, data |-> UndefinedBody, at |-> 0,
   token |-> [header |-> "", body |-> [text |-> "", props |-> << >>, iat |-> 0, exp |-> 0],
              signature |-> Undefined],
   altered |-> "",
   verified |-> [done |-> FALSE, at |-> 0,
                 result |-> [tag |-> "", props |-> << >>, iat |-> 0, exp |-> 0]]]

\* the PHP gateway is not running: its transaction file and rate limit file
\* are empty, no request is in progress
InitPhpIdle ==
  /\ dbFile = << >>
  /\ storeProcs = << >>
  /\ limitsFile = << >>
  /\ limiterProcs = << >>
  /\ limiterLog = << >>
  /\ storeLog = << >>

\* no pure function is applied
InitSignerIdle ==
  /\ signing = NoSigning
  /\ derived = NoDerived
  /\ payloadSigning = NoPayloadSigning
  /\ session = NoSession

\* no request reaches the gateway server
InitServerIdle ==
  /\ exchange = NoExchange
  /\ transactions = InitialTransactions
  /\ ipn = NoIpn
  /\ verify = NoVerify
  /\ InitPhpIdle

\* no gateway client takes part
InitClientIdle ==
  /\ cfg = [host |-> [defined |-> FALSE, chars |-> << >>], merchantId |-> Undefined,
            apiKey |-> Undefined, apiSecret |-> Undefined]
  /\ pending = [op \in {"createPaymentOrder", "verifyPayment", "inquirePayment"} |-> 0]
  /\ sent = [posted |-> FALSE]
  /\ outcome = [settled |-> "none"]
  /\ lastGen = [called |-> FALSE]

Init ==
  /\ now = 0
  /\ req = NoRequest
  /\ orig = NoRequest
  /\ tampered = ""
  /\ verdict = NoVerdict
  /\ seen = NoSeen
  /\ InitClientIdle
  /\ InitSignerIdle
  /\ InitServerIdle

\* the clock advances
Tick(d) ==
  /\ now + d \in Instants
  /\ now' = now + d
  /\ verdict' = NoVerdict
  /\ UNCHANGED <<req, orig, tampered, seen, clientVars, signerVars, serverVars>>

\* a signer signs a request (Test 9)
SignRequest(stamp, host, targetApi, merchantId, apiKey, body) ==
  LET secret == JsText("sk_test_secret456")
      signed ==
        [present |-> TRUE,
         headers |-> TestHeaders(JsText(stamp.text), JsText(host), JsText(targetApi),
                                 JsText(merchantId), JsText(apiKey), secret, body),
         body |-> body,
         secret |-> secret,
         dated |-> stamp.dated,
         instant |-> stamp.instant]
  IN /\ ~req.present
     /\ req' = signed
     /\ orig' = signed
     /\ tampered' = ""
     /\ verdict' = NoVerdict
     /\ UNCHANGED <<now, seen, clientVars, signerVars, serverVars>>

\* the request is altered in transit: one header replaced or removed
TamperHeader(name, v) ==
  /\ req.present
  /\ tampered = ""
  /\ v # Property(req.headers, name)
  /\ req' = [req EXCEPT !.headers = WithProperty(req.headers, name, v)]
  /\ tampered' = name
  /\ verdict' = NoVerdict
  /\ UNCHANGED <<now, orig, seen, clientVars, signerVars, serverVars>>

\* the request is altered in transit: another body
TamperBody(b) ==
  /\ req.present
  /\ tampered = ""
  /\ b # req.body
  /\ req' = [req EXCEPT !.body = b]
  /\ tampered' = "body"
  /\ verdict' = NoVerdict
  /\ UNCHANGED <<now, orig, seen, clientVars, signerVars, serverVars>>

\* the presentation in hand is the one noted as accepted, same secret
SeenBefore(secret) ==
  /\ seen.accepted
  /\ seen.headers = req.headers
  /\ seen.body = req.body
  /\ seen.secret = secret

\* Validate, had the verifier a nonce store: a presentation it accepted once
\* is rejected from then on
Validate_SingleUse(secret) ==
  /\ ~verdict.called
  /\ \E result \in {validateSignature(req.headers, req.body, secret, now)} :
       /\ verdict' = [called |-> TRUE,
                      result |-> IF SeenBefore(secret) THEN "false" ELSE result,
                      secret |-> secret]
       /\ seen' = IF result = "true" /\ ~SeenBefore(secret)
                  THEN [accepted |-> TRUE, headers |-> req.headers, body |-> req.body,
                        secret |-> secret, at |-> now]
                  ELSE seen
  /\ UNCHANGED <<now, req, orig, tampered, clientVars, signerVars, serverVars>>

\* the verifier is handed the request, or no headers at all, with a secret;
\* validateSignature writes nothing, the observer notes the first time a
\* presentation is accepted
Validate(secret) ==
  /\ ~verdict.called
  /\ \E result \in {validateSignature(req.headers, req.body, secret, now)} :
       /\ verdict' = [called |-> TRUE, result |-> result, secret |-> secret]
       /\ seen' = IF result = "true" /\ ~SeenBefore(secret)
                  THEN [accepted |-> TRUE, headers |-> req.headers, body |-> req.body,
                        secret |-> secret, at |-> now]
                  ELSE seen
  /\ UNCHANGED <<now, req, orig, tampered, clientVars, signerVars, serverVars>>

Next ==
  \/ \E d \in Steps : Tick(d)
  \/ \E stamp \in Stamps, host \in Hosts, targetApi \in TargetApis,
        merchantId \in MerchantIds, apiKey \in ApiKeys, body \in SignedBodies :
       SignRequest(stamp, host, targetApi, merchantId, apiKey, body)
  \/ \E name \in RequiredNames : \E v \in Replacements(name) : TamperHeader(name, v)
  \/ \E b \in Bodies : TamperBody(b)
  \/ \E secret \in {JsText(s) : s \in Secrets} \cup {Undefined} : Validate(secret)

Spec == Init /\ [][Next]_vars

(***************************************************************************)
(* GatewayClient                                                           *)
(***************************************************************************)
\* config.gateway.baseUrl and config.gateway.endpoints, at their defaults
BaseUrl == "https://api-stage.tnextpay.com"
Endpoint(op) ==
  CASE op = "createPaymentOrder" ->
         "/payment/api/v1/p/service/api/payment/processing/payment-order"
    [] op = "verifyPayment" -> "/payment/api/v1/p/service/api/payment/processing/verify"
    [] op = "inquirePayment" -> "/payment/api/v1/p/service/api/payment/processing/inquiry"

Ops == {"createPaymentOrder", "verifyPayment", "inquirePayment"}

JsNumber(lit) == [tag |-> "number", key |-> "", msg |-> lit]

\* the property key: v of an object literal, v a string, a number or undefined
PropOf(k, v) ==
  CASE v.tag = "text" -> Prop(k, "string", v.msg)
    [] v.tag = "number" -> Prop(k, "number", v.msg)
    [] v.tag = "undefined" -> Prop(k, "undefined", "")

\* v || fallback
OrElse(v, fallback) == IF Falsy(v) THEN fallback ELSE v

\* obj?.name || '' for an object obj that may be undefined
FieldOrEmpty(obj, name) ==
  IF obj.defined /\ \E i \in 1..Len(obj.props) :
                      obj.props[i].key = name /\ obj.props[i].type = "string"
                        /\ obj.props[i].lit # ""
  THEN JsText((obj.props[CHOOSE i \in 1..Len(obj.props) : obj.props[i].key = name]).lit)
  ELSE JsText("")

\* obj || {}
PropsOrEmpty(obj) == IF obj.defined THEN obj.props ELSE << >>

\* the request body createPaymentOrder builds from orderData
CreateOrderBody(orderData) ==
  ObjectBody(<<
    PropOf("order_id", orderData.orderId),
    ObjectProp("order_information",
               <<PropOf("payable_amount", orderData.amount),
                 PropOf("currency_code", OrElse(orderData.currency, JsText("BDT")))>>),
    PropOf("ipn_url", orderData.ipnUrl),
    PropOf("success_url", orderData.successUrl),
    PropOf("cancel_url", orderData.cancelUrl),
    PropOf("failure_url", orderData.failureUrl),
    ObjectProp("promotion_information", PropsOrEmpty(orderData.promotionInfo)),
    ObjectProp("discount_detail", PropsOrEmpty(orderData.discountDetail)),
    PropOf("mdf_1", FieldOrEmpty(orderData.customFields, "mdf_1")),
    PropOf("mdf_2", FieldOrEmpty(orderData.customFields, "mdf_2")),
    PropOf("mdf_3", FieldOrEmpty(orderData.customFields, "mdf_3")),
    PropOf("mdf_4", FieldOrEmpty(orderData.customFields, "mdf_4")),
    PropOf("mdf_5", FieldOrEmpty(orderData.customFields, "mdf_5")),
    PropOf("mdf_6", FieldOrEmpty(orderData.customFields, "mdf_6")),
    ObjectProp("customer_information", PropsOrEmpty(orderData.customerInfo)),
    ObjectProp("product_information", PropsOrEmpty(orderData.productInfo)),
    ObjectProp("shipment_information", PropsOrEmpty(orderData.shipmentInfo))>>)

\* the request body verifyPayment builds
VerifyBody(verificationData) ==
  ObjectBody(<<PropOf("paymentOrderId", verificationData.paymentOrderId)>>)

\* InquiryBody, had the api secret been sent as a body field, as the
\* credentials of the earlier body-based authentication were
InquiryBody_WithSecret(inquiryData, merchantId) ==
  ObjectBody(<<PropOf("order_id", inquiryData.orderId),
               PropOf("merchant_code", merchantId),
               PropOf("signature", cfg.apiSecret)>>)

\* the request body inquirePayment builds
InquiryBody(inquiryData, merchantId) ==
  ObjectBody(<<PropOf("order_id", inquiryData.orderId),
               PropOf("merchant_code", merchantId)>>)

\* getAuthConfig()
getAuthConfig(c) ==
  [host |-> c.host, merchantId |-> c.merchantId, apiKey |-> c.apiKey,
   apiSecret |-> c.apiSecret]

NoPost == [posted |-> FALSE, op |-> "", url |-> "", headers |-> UndefinedHeaders,
           body |-> UndefinedBody, at |-> 0]

NoOutcome == [settled |-> "none", op |-> "", success |-> FALSE, statusCode |-> 0,
              statusText |-> "", message |-> "", reason |-> ""]

NoGen == [called |-> FALSE, op |-> "", config |-> getAuthConfig(
            [host |-> UndefinedHost, merchantId |-> Undefined, apiKey |-> Undefined,
             apiSecret |-> Undefined]),
          result |-> ThrowError("")]

\* the message of the catch block's NETWORK_ERROR result
ConnectMessage(op) ==
  CASE op = "createPaymentOrder" -> "Failed to connect to payment gateway"
    [] op = "verifyPayment" -> "Failed to verify payment"
    [] op = "inquirePayment" -> "Failed to inquire payment status"

\* the message the catch block gives an error response that carries none
DefaultMessage(op) ==
  CASE op = "createPaymentOrder" -> "Unknown error"
    [] op = "verifyPayment" -> "Verification failed"
    [] op = "inquirePayment" -> "Inquiry failed"

\* the catch block's result for an error without a response
NetworkError(op, errorMessage) ==
  [settled |-> "resolved", op |-> op, success |-> FALSE, statusCode |-> 500,
   statusText |-> "NETWORK_ERROR", message |-> ConnectMessage(op),
   reason |-> errorMessage]

\* TryPost, had the request been posted whatever generateGatewayHeaders did
TryPost_PostAnyway(op, requestBody, config, currentTime) ==
  LET gen == generateGatewayHeaders(Endpoint(op), requestBody, config, currentTime)
  IN [post |-> TRUE, gen |-> gen,
      request |-> [posted |-> TRUE, op |-> op, url |-> BaseUrl \o Endpoint(op),
                   headers |-> gen.headers, body |-> requestBody, at |-> currentTime],
      outcome |-> NoOutcome]

\* TryPost, had the headers been generated for an empty object and not for
\* the body that is posted
TryPost_DigestOfEmpty(op, requestBody, config, currentTime) ==
  LET gen == generateGatewayHeaders(Endpoint(op), ObjectBody(<< >>), config, currentTime)
  IN IF gen.threw
     THEN [post |-> FALSE, gen |-> gen, request |-> NoPost,
           outcome |-> NetworkError(op, gen.error)]
     ELSE [post |-> TRUE, gen |-> gen,
           request |-> [posted |-> TRUE, op |-> op, url |-> BaseUrl \o Endpoint(op),
                        headers |-> gen.headers, body |-> requestBody,
                        at |-> currentTime],
           outcome |-> NoOutcome]

\* the first part of a client call's try block, up to the await: the header
\* set is generated and, unless that throws, the request is posted
\* ([post |-> TRUE]); when it throws the catch block resolves the call
TryPost(op, requestBody, config, currentTime) ==
  LET gen == generateGatewayHeaders(Endpoint(op), requestBody, config, currentTime)
  IN IF gen.threw
     THEN [post |-> FALSE, gen |-> gen, request |-> NoPost,
           outcome |-> NetworkError(op, gen.error)]
     ELSE [post |-> TRUE, gen |-> gen,
           request |-> [posted |-> TRUE, op |-> op, url |-> BaseUrl \o Endpoint(op),
                        headers |-> gen.headers, body |-> requestBody,
                        at |-> currentTime],
           outcome |-> NoOutcome]

\* what the last call of generateGatewayHeaders was given and returned
GenRecord(op, try) ==
  [called |-> TRUE, op |-> op, config |-> getAuthConfig(cfg), result |-> try.gen]

\* createPaymentOrder(orderData), up to its await of axios.post
createPaymentOrder(orderData) ==
  LET op == "createPaymentOrder"
  IN \E try \in {TryPost(op, CreateOrderBody(orderData), getAuthConfig(cfg), now)} :
     /\ try.post => pending[op] < MaxInFlight
     /\ lastGen' = GenRecord(op, try)
     /\ sent' = IF try.post THEN try.request ELSE sent
     /\ pending' = IF try.post THEN [pending EXCEPT ![op] = @ + 1] ELSE pending
     /\ outcome' = IF try.post THEN outcome ELSE try.outcome
     /\ UNCHANGED <<now, verifierVars, cfg, signerVars, serverVars>>

\* verifyPayment(verificationData), up to its await of axios.post
verifyPayment(verificationData) ==
  LET op == "verifyPayment"
  IN \E try \in {TryPost(op, VerifyBody(verificationData), getAuthConfig(cfg), now)} :
     /\ try.post => pending[op] < MaxInFlight
     /\ lastGen' = GenRecord(op, try)
     /\ sent' = IF try.post THEN try.request ELSE sent
     /\ pending' = IF try.post THEN [pending EXCEPT ![op] = @ + 1] ELSE pending
     /\ outcome' = IF try.post THEN outcome ELSE try.outcome
     /\ UNCHANGED <<now, verifierVars, cfg, signerVars, serverVars>>

\* inquirePayment(inquiryData), up to its await of axios.post
inquirePayment(inquiryData) ==
  LET op == "inquirePayment"
  IN \E try \in {TryPost(op, InquiryBody(inquiryData, cfg.merchantId), getAuthConfig(cfg), now)} :
     /\ try.post => pending[op] < MaxInFlight
     /\ lastGen' = GenRecord(op, try)
     /\ sent' = IF try.post THEN try.request ELSE sent
     /\ pending' = IF try.post THEN [pending EXCEPT ![op] = @ + 1] ELSE pending
     /\ outcome' = IF try.post THEN outcome ELSE try.outcome
     /\ UNCHANGED <<now, verifierVars, cfg, signerVars, serverVars>>

\* the awaited axios.post of a call settles: a 2xx response, an error
\* response, or no response at all
Settle(op, kind) ==
  /\ pending[op] > 0
  /\ pending' = [pending EXCEPT ![op] = @ - 1]
  /\ outcome' =
       CASE kind = "response" ->
              [settled |-> "resolved", op |-> op, success |-> TRUE, statusCode |-> 200,
               statusText |-> "OK", message |-> "", reason |-> ""]
         [] kind = "error-response" ->
              [settled |-> "resolved", op |-> op, success |-> FALSE, statusCode |-> 401,
               statusText |-> "Unauthorized", message |-> DefaultMessage(op),
               reason |-> "Unauthorized"]
         [] kind = "no-response" -> NetworkError(op, "timeout of 30000ms exceeded")
  /\ UNCHANGED <<now, verifierVars, cfg, sent, lastGen, signerVars, serverVars>>

\* the credentials and the host the client is constructed with
ConfigHosts ==
  {UndefinedHost,
   HostString(<<"1", "0", ".", "0", ".", "0", ".", "5">>),
   HostString(<<"g", "w", ".", "i", "o">>),
   HostString(<<"h", "t", "t", "p", "s", ":", "/", "/", "g", "w", ".", "i", "o">>)}

Configs ==
  [host : ConfigHosts,
   merchantId : {Undefined, JsText(""), JsText("test-merchant-001")},
   apiKey : {Undefined, JsText("pk_test_abc123")},
   apiSecret : {Undefined, JsText(""), JsText("sk_test_secret456")}]

NoObject == UndefinedBody

OrderDatas ==
  {[orderId |-> JsText("A"), amount |-> JsNumber("1000"), currency |-> Undefined,
    ipnUrl |-> Undefined, successUrl |-> Undefined, cancelUrl |-> Undefined,
    failureUrl |-> Undefined, promotionInfo |-> NoObject, discountDetail |-> NoObject,
    customFields |-> NoObject, customerInfo |-> NoObject, productInfo |-> NoObject,
    shipmentInfo |-> NoObject],
   [orderId |-> JsText("B"), amount |-> JsNumber("250"), currency |-> JsText("USD"),
    ipnUrl |-> JsText("https://merchant.com/ipn"),
    successUrl |-> JsText("https://merchant.com/success"),
    cancelUrl |-> JsText("https://merchant.com/cancel"),
    failureUrl |-> JsText("https://merchant.com/failure"),
    promotionInfo |-> ObjectBody(<<Prop("preferred_channel", "string", "VISA")>>),
    discountDetail |-> ObjectBody(<< >>),
    customFields |-> ObjectBody(<<Prop("mdf_1", "string", "custom-value-1")>>),
    customerInfo |-> ObjectBody(<<Prop("name", "string", "Test Customer")>>),
    productInfo |-> NoObject, shipmentInfo |-> NoObject]}

VerificationDatas == {[paymentOrderId |-> JsText("test-payment-order-123")]}
InquiryDatas == {[orderId |-> JsText("A")]}

InitClient ==
  /\ now = 0
  /\ req = NoRequest
  /\ orig = NoRequest
  /\ tampered = ""
  /\ verdict = NoVerdict
  /\ seen = NoSeen
  /\ InitSignerIdle
  /\ InitServerIdle
  /\ cfg \in Configs
  /\ pending = [op \in Ops |-> 0]
  /\ sent = NoPost
  /\ outcome = NoOutcome
  /\ lastGen = NoGen

NextClient ==
  \/ \E d \in Steps : Tick(d)
  \/ \E orderData \in OrderDatas : createPaymentOrder(orderData)
  \/ \E verificationData \in VerificationDatas : verifyPayment(verificationData)
  \/ \E inquiryData \in InquiryDatas : inquirePayment(inquiryData)
  \/ \E op \in Ops, kind \in {"response", "error-response", "no-response"} :
       Settle(op, kind)

SpecClient == InitClient /\ [][NextClient]_vars

(***************************************************************************)
(* generateSignature as a function of its five fields                      *)
(***************************************************************************)
\* field values with and without the delimiter in them
SignatureTimestamps == {"a", "a|b"}
SignatureHosts == {"b|c", "c"}
SignatureTargetApis == {"d"}
SignatureMerchantIds == {"e"}
SignatureApiKeys == {"f", "g"}

SignatureFields ==
  {Fields(JsText(timestamp), JsText(host), JsText(targetApi), JsText(merchantId),
          JsText(apiKey)) :
     timestamp \in SignatureTimestamps, host \in SignatureHosts,
     targetApi \in SignatureTargetApis, merchantId \in SignatureMerchantIds,
     apiKey \in SignatureApiKeys}

\* no request is signed for the verifier
InitVerifierIdle ==
  /\ req = NoRequest
  /\ orig = NoRequest
  /\ tampered = ""
  /\ verdict = NoVerdict
  /\ seen = NoSeen

InitSignature ==
  /\ now = 0
  /\ InitVerifierIdle
  /\ InitClientIdle
  /\ InitServerIdle
  /\ derived = NoDerived
  /\ payloadSigning = NoPayloadSigning
  /\ session = NoSession
  /\ signing \in
       {[called |-> FALSE, first |-> a, second |-> b, secret |-> JsText(s),
         sigFirst |-> Undefined, sigSecond |-> Undefined] :
          a \in SignatureFields, b \in SignatureFields, s \in Secrets}

\* generateSignature is called for both field tuples
SignBoth ==
  /\ ~signing.called
  /\ signing' =
       [signing EXCEPT
          !.called = TRUE,
          !.sigFirst =
            generateSignature(signing.first.timestamp, signing.first.host,
                              signing.first.targetApi, signing.first.merchantId,
                              signing.first.apiKey, signing.secret),
          !.sigSecond =
            generateSignature(signing.second.timestamp, signing.second.host,
                              signing.second.targetApi, signing.second.merchantId,
                              signing.second.apiKey, signing.secret)]
  /\ UNCHANGED <<now, verifierVars, clientVars, serverVars, derived, payloadSigning,
                 session>>

NextSignature == SignBoth

SpecSignature == InitSignature /\ [][NextSignature]_vars

(***************************************************************************)
(* The host derivation of generateGatewayHeaders on its own                *)
(***************************************************************************)
Schemes ==
  {<< >>, <<"h", "t", "t", "p", ":", "/", "/">>,
   <<"h", "t", "t", "p", "s", ":", "/", "/">>}

FirstOctets == {<<"1", "0">>, <<"1", "2", "7">>, <<"1", "7", "2">>, <<"1", "9", "2">>, <<"8">>}
SecondOctets ==
  {<<"0">>, <<"1", "5">>, <<"1", "6">>, <<"3", "1">>, <<"3", "2">>, <<"1", "6", "8">>}
LastOctets == {<<"1">>, <<"2">>}

\* dotted IPv4 addresses a.b.0.d
Addresses ==
  {<<a, b, <<"0">>, d>> : a \in FirstOctets, b \in SecondOctets, d \in LastOctets}

\* host names
Names ==
  {<<<<"l", "o", "c", "a", "l", "h", "o", "s", "t">>>>,
   <<<<"a", "p", "i", "-", "s", "t", "a", "g", "e">>,
     <<"t", "n", "e", "x", "t", "p", "a", "y">>, <<"c", "o", "m">>>>,
   <<<<"1", "0">>, <<"e", "x", "a", "m", "p", "l", "e">>, <<"c", "o", "m">>>>,
   <<<<"l", "o", "c", "a", "l", "h", "o", "s", "t">>, <<"e", "v", "i", "l">>,
     <<"c", "o", "m">>>>}

RECURSIVE Dotted(_)
\* the labels of a host joined with dots
Dotted(labels) ==
  IF Len(labels) = 1 THEN Head(labels)
  ELSE Head(labels) \o <<".">> \o Dotted(Tail(labels))

\* the host derivation is applied to a configured host
DeriveHost(scheme, labels) ==
  /\ derived' = [called |-> TRUE, scheme |-> scheme, labels |-> labels,
                 host |-> GatewayHost(HostString(scheme \o Dotted(labels)))]
  /\ UNCHANGED <<now, verifierVars, clientVars, signing, payloadSigning, session,
                 serverVars>>

InitHost ==
  /\ now = 0
  /\ InitVerifierIdle
  /\ InitClientIdle
  /\ InitSignerIdle
  /\ InitServerIdle

NextHost == \E scheme \in Schemes, labels \in Addresses \cup Names : DeriveHost(scheme, labels)

SpecHost == InitHost /\ [][NextHost]_vars

(***************************************************************************)
(* The signing side handing its requests to validateSignature              *)
(***************************************************************************)
\* the merchant the test configuration belongs to, and another one
RoundTripMerchantIds == {"test-merchant-001", "merchant-b"}

\* the configurations generateGatewayHeaders accepts
ValidConfigs ==
  {c \in Configs : ~Falsy(c.merchantId) /\ ~Falsy(c.apiKey) /\ ~Falsy(c.apiSecret)}

\* the header object generateGatewayHeaders returns is presented, as
\* returned, with the body it was generated for
GenerateRequest(targetApi, body, config) ==
  \E gen \in {generateGatewayHeaders(targetApi, body, config, now)} :
    \E generated \in
         {[present |-> TRUE, headers |-> gen.headers, body |-> body,
           secret |-> config.apiSecret, dated |-> TRUE,
           instant |-> (now \div 1000) * 1000]} :
      /\ ~req.present
      /\ ~gen.threw
      /\ req' = generated
      /\ orig' = generated
      /\ tampered' = ""
      /\ verdict' = NoVerdict
      /\ UNCHANGED <<now, seen, clientVars, signerVars, serverVars>>

NextRoundTrip ==
  \/ \E d \in Steps : Tick(d)
  \/ \E stamp \in Stamps, host \in Hosts, targetApi \in TargetApis,
        merchantId \in RoundTripMerchantIds, body \in SignedBodies :
       SignRequest(stamp, host, targetApi, merchantId, "pk_test_abc123", body)
  \/ \E targetApi \in TargetApis, body \in SignedBodies, config \in ValidConfigs :
       GenerateRequest(targetApi, body, config)
  \/ \E secret \in {JsText(s) : s \in Secrets} \cup {Undefined} : Validate(secret)

SpecRoundTrip == Init /\ [][NextRoundTrip]_vars

(***************************************************************************)
(* SignatureService and the signature middleware                           *)
(***************************************************************************)
\* config.security.jwtSecret, at its default
JwtSecret == JsText("change-this-secret-in-production")

\* the property names of the payloads, as Array.prototype.sort orders them
KeyOrder ==
  <<"amount", "customer", "items", "order_id", "status", "status_code",
    "transaction_id">>

RECURSIVE SortedBy(_, _)
\* the properties named by keys, in the order of keys, nested objects sorted
SortedBy(props, keys) ==
  IF keys = << >> THEN << >>
  ELSE LET here == SelectSeq(props, LAMBDA q : q.key = Head(keys))
       IN (IF here = << >> THEN << >>
           ELSE IF here[1].type = "object"
           THEN <<[here[1] EXCEPT !.obj = SortedBy(here[1].obj, KeyOrder)]>>
           ELSE <<here[1]>>)
          \o SortedBy(props, Tail(keys))

\* sortKeys(obj) of an object
sortKeys(payload) == ObjectBody(SortedBy(payload.props, KeyOrder))

\* stringifyPayload(payload)
stringifyPayload(payload) == JsonStringify(sortKeys(payload))

\* SignatureService.generateSignature(payload): hex HMAC-SHA256, keyed with
\* the jwt secret, of the payload's sorted serialization; sortKeys and
\* JSON.stringify hand undefined through, and Hmac.update(undefined) throws
ServiceGenerateSignature(payload) ==
  IF ~payload.defined THEN Throw
  ELSE [tag |-> "hmac-sha256-hex", key |-> JwtSecret.msg,
        msg |-> stringifyPayload(payload)]

\* SignatureService.validateSignature(payload, signature): no try around
\* timingSafeEqual
ServiceValidateSignature(payload, signature) ==
  LET expectedSignature == ServiceGenerateSignature(payload)
  IN IF expectedSignature = Throw THEN "throw"
     ELSE TimingSafeEqual(signature, expectedSignature)

\* the two insertion orders of a pair of properties
BothOrders(p, q) == {<<p, q>>, <<q, p>>}

\* the properties of an order line
Line(orderId) == <<Prop("order_id", "string", orderId), Prop("amount", "number", "1000")>>

\* an order line in both insertion orders of its keys
Lines(orderId) == BothOrders(Line(orderId)[1], Line(orderId)[2])

\* what a payload carries next to its order_id: an amount, a customer
\* object, an array of one line, an array of two lines
PayloadExtras ==
  {Prop("amount", "number", "1000")}
  \cup {ObjectProp("customer", line) : line \in Lines("A")}
  \cup {ArrayProp("items", <<ObjectProp("", line)>>) : line \in Lines("A")}
  \cup {ArrayProp("items", <<ObjectProp("", Line("A")), ObjectProp("", Line("B"))>>),
        ArrayProp("items", <<ObjectProp("", Line("B")), ObjectProp("", Line("A"))>>)}

\* the payloads handed to SignatureService.generateSignature
Payloads ==
  {ObjectBody(props) :
     props \in UNION {BothOrders(Prop("order_id", "string", "A"), extra) :
                        extra \in PayloadExtras}}

\* generateSignature is called for two payloads
SignPayloads(first, second) ==
  /\ payloadSigning' =
       [called |-> TRUE, first |-> first, second |-> second,
        signatures |-> <<ServiceGenerateSignature(first),
                         ServiceGenerateSignature(second)>>]
  /\ UNCHANGED <<now, verifierVars, clientVars, signing, derived, session, serverVars>>

InitPayload ==
  /\ now = 0
  /\ InitVerifierIdle
  /\ InitClientIdle
  /\ InitSignerIdle
  /\ InitServerIdle

NextPayload == \E first \in Payloads, second \in Payloads : SignPayloads(first, second)

SpecPayload == InitPayload /\ [][NextPayload]_vars

(***************************************************************************)
(* SignatureService: session tokens                                        *)
(***************************************************************************)
\* 60 * 60 seconds: 1 hour
SessionSeconds == 60 * 60

\* Math.floor(Date.now() / 1000)
EpochSeconds(ms) == ms \div 1000

\* Buffer.from(JSON.stringify({ alg: 'HS256', typ: 'JWT' })).toString('base64url')
JwtHeader == "base64url({\"alg\":\"HS256\",\"typ\":\"JWT\"})"

\* { ...data, iat, exp }: the properties of data, iat and exp among them
\* overwritten where they stand, else added at the end
Spread(data, iat, exp) ==
  LET over(q) == IF q.key = "iat" THEN Prop("iat", "number", ToString(iat))
                 ELSE IF q.key = "exp" THEN Prop("exp", "number", ToString(exp))
                 ELSE q
      has(k) == \E i \in 1..Len(data.props) : data.props[i].key = k
  IN [i \in 1..Len(data.props) |-> over(data.props[i])]
       \o (IF has("iat") THEN << >> ELSE <<Prop("iat", "number", ToString(iat))>>)
       \o (IF has("exp") THEN << >> ELSE <<Prop("exp", "number", ToString(exp))>>)

\* the body segment of a token, Buffer.from(JSON.stringify(payload))
\* .toString('base64url'), with what JSON.parse makes of it again: the
\* properties whose value is not undefined
BodySegment(props, iat, exp) ==
  [text |-> "base64url(" \o JsonStringify(ObjectBody(props)) \o ")",
   props |-> SelectSeq(props, LAMBDA q : q.type # "undefined"), iat |-> iat,
   exp |-> exp]

\* a token that has no body segment
NoBodySegment == [text |-> "undefined", props |-> << >>, iat |-> 0, exp |-> 0]

\* crypto.createHmac('sha256', key).update(`${header}.${body}`).digest('base64url')
HmacSha256Base64Url(key, header, body) ==
  [tag |-> "hmac-sha256-base64url", key |-> key.msg, msg |-> header \o "." \o body.text]

\* generateSessionToken(data) with the clock at currentTime
generateSessionToken(data, currentTime) ==
  LET iat == EpochSeconds(currentTime)
      exp == EpochSeconds(currentTime) + SessionSeconds
      body == BodySegment(Spread(data, iat, exp), iat, exp)
  IN [header |-> JwtHeader, body |-> body,
      signature |-> HmacSha256Base64Url(JwtSecret, JwtHeader, body)]

Null == [tag |-> "null", props |-> << >>, iat |-> 0, exp |-> 0]
Decoded(body) == [tag |-> "payload", props |-> body.props, iat |-> body.iat, exp |-> body.exp]

\* verifySessionToken(token) with the clock at currentTime: null for a
\* signature that is not the expected one, for a body JSON.parse throws on
\* (inside the try block), and for an expired payload
verifySessionToken(token, currentTime) ==
  IF token.signature # HmacSha256Base64Url(JwtSecret, token.header, token.body)
  THEN Null
  ELSE IF token.body = NoBodySegment THEN Null
  ELSE IF token.body.exp # 0 /\ token.body.exp < EpochSeconds(currentTime) THEN Null
  ELSE Decoded(token.body)

\* clock steps of the session model, in milliseconds
SessionSteps == {500, 1000, SessionSeconds * 1000}

\* the instants the clock of the session model can show: within MaxTicks
\* seconds of 0 and of the hour
SessionInstants ==
  {h * SessionSeconds * 1000 + a * 500 : h \in {0, 1}, a \in 0..(2 * MaxTicks)}

\* the data objects a token is generated for
SessionDatas ==
  {ObjectBody(<< >>),
   ObjectBody(<<Prop("merchantId", "string", "test-merchant-001")>>),
   ObjectBody(<<Prop("merchantId", "string", "test-merchant-001"),
                Prop("exp", "number", "9999999999")>>)}

\* the ways a token is altered before it is presented: its payload segment
\* replaced by one that expires an hour later, its signature segment
\* replaced, both replaced with a signature under another key, and its
\* payload and signature segments cut off
Alterations == {"payload", "signature", "forged", "truncated"}

Altered(token, kind) ==
  LET later == BodySegment(Spread(ObjectBody(token.body.props), token.body.iat,
                                  token.body.exp + SessionSeconds),
                           token.body.iat, token.body.exp + SessionSeconds)
  IN CASE kind = "payload" -> [token EXCEPT !.body = later]
       [] kind = "signature" ->
            [token EXCEPT !.signature = [@ EXCEPT !.msg = "AAAA"]]
       [] kind = "forged" ->
            [token EXCEPT !.body = later,
                          !.signature =
                            HmacSha256Base64Url(JsText("attacker"), token.header, later)]
       [] kind = "truncated" ->
            [token EXCEPT !.body = NoBodySegment, !.signature = Undefined]

InitSession ==
  /\ now = 0
  /\ InitVerifierIdle
  /\ InitClientIdle
  /\ InitSignerIdle
  /\ InitServerIdle

\* the clock advances
SessionTick(d) ==
  /\ now + d \in SessionInstants
  /\ now' = now + d
  /\ UNCHANGED <<verifierVars, clientVars, signerVars, serverVars>>

\* a session token is generated
GenerateSessionToken(data) ==
  /\ ~session.issued
  /\ session' = [NoSession EXCEPT !.issued = TRUE, !.data = data, !.at = now,
                                  !.token = generateSessionToken(data, now)]
  /\ UNCHANGED <<now, verifierVars, clientVars, signing, derived, payloadSigning,
                 serverVars>>

\* the token is altered on its way back
AlterToken(kind) ==
  /\ session.issued
  /\ session.altered = ""
  /\ ~session.verified.done
  /\ session' = [session EXCEPT !.altered = kind, !.token = Altered(@, kind)]
  /\ UNCHANGED <<now, verifierVars, clientVars, signing, derived, payloadSigning,
                 serverVars>>

\* the token is handed to verifySessionToken
VerifySessionToken ==
  /\ session.issued
  /\ session' =
       [session EXCEPT
          !.verified = [done |-> TRUE, at |-> now,
                        result |-> verifySessionToken(session.token, now)]]
  /\ UNCHANGED <<now, verifierVars, clientVars, signing, derived, payloadSigning,
                 serverVars>>

NextSession ==
  \/ \E d \in SessionSteps : SessionTick(d)
  \/ \E data \in SessionDatas : GenerateSessionToken(data)
  \/ \E kind \in Alterations : AlterToken(kind)
  \/ VerifySessionToken

SpecSession == InitSession /\ [][NextSession]_vars

\* res.status(status).json({success: false, message, error})
Reject(status, message, error) ==
  [passed |-> FALSE, status |-> status, success |-> FALSE, message |-> message,
   error |-> error]

\* next()
CallNext == [passed |-> TRUE, status |-> 0, success |-> FALSE, message |-> "", error |-> ""]

\* the middleware validateSignature(req, res, next), for a request with
\* header x-signature and body, under process.env.NODE_ENV
MiddlewareValidateSignature(signature, body, nodeEnv) ==
  IF Falsy(signature)
  THEN IF nodeEnv # "production" THEN CallNext
       ELSE Reject(401, "Request signature is required", "MISSING_SIGNATURE")
  ELSE LET isValid == ServiceValidateSignature(body, signature)
       IN IF isValid = "throw"
          THEN Reject(401, "Signature validation failed", "SIGNATURE_VALIDATION_ERROR")
          ELSE IF isValid = "false"
          THEN Reject(401, "Invalid request signature", "INVALID_SIGNATURE")
          ELSE CallNext

\* a text of 64 characters that is no hash value
Garbage64 == "0000000000000000000000000000000000000000000000000000000000000000"

\* what a caller can put into x-signature for a body
XSignatures(body) ==
  {Undefined, JsText(""), ServiceGenerateSignature(body), ServiceGenerateSignature(OrderB),
   JsText(Garbage64), JsText("abc")}

NodeEnvs == {"development", "production"}

\* a request arrives at a route behind the signature middleware
HandleRequest(signature, body, nodeEnv) ==
  /\ \E answer \in {MiddlewareValidateSignature(signature, body, nodeEnv)} :
       exchange' = [handled |-> TRUE, nodeEnv |-> nodeEnv, signature |-> signature,
                    body |-> body, passed |-> answer.passed, status |-> answer.status,
                    success |-> answer.success, message |-> answer.message,
                    error |-> answer.error]
  /\ UNCHANGED <<now, verifierVars, clientVars, signerVars, transactions, ipn, verify,
                 phpVars>>

(***************************************************************************)
(* The IPN handler, POST /api/payment/ipn                                  *)
(***************************************************************************)
\* String.prototype.trim, for the texts a callback carries
Trim(text) == IF text \in {" ", "  "} THEN "" ELSE text

RECURSIVE Sanitized(_)
\* sanitizeObject of the properties of an object: strings trimmed, nested
\* objects sanitized
Sanitized(props) ==
  IF props = << >> THEN << >>
  ELSE <<CASE Head(props).type = "string" -> [Head(props) EXCEPT !.lit = Trim(@)]
           [] Head(props).type = "object" -> [Head(props) EXCEPT !.obj = Sanitized(@)]
           [] OTHER -> Head(props)>>
       \o Sanitized(Tail(props))

\* sanitizeInput: req.body = sanitizeObject(req.body) when there is a body
sanitizeInput(body) == IF body.defined THEN ObjectBody(Sanitized(body.props)) ELSE body

\* body[name] of a request body
Member(body, name) ==
  IF body.defined /\ \E i \in 1..Len(body.props) : body.props[i].key = name
  THEN LET q == body.props[CHOOSE i \in 1..Len(body.props) : body.props[i].key = name]
       IN CASE q.type = "string" -> JsText(q.lit)
            [] q.type = "number" -> JsNumber(q.lit)
            [] OTHER -> Undefined
  ELSE Undefined

\* res.status(status).json({success, message})
Answer(status, success, message) ==
  [status |-> status, success |-> success, message |-> message]

\* the methods of the TransactionStore object that models/transaction
\* exports; calling any other property of it throws a TypeError
TransactionStoreMethods == {"create", "get", "getAll", "update", "getStats", "clear"}

\* the handler of POST /api/payment/ipn for a sanitized body: its answer and
\* the transactions afterwards. It verifies no signature. The call of
\* transactionStore.getByOrderId throws inside the try block, whose catch
\* answers with res.json
ipnHandler(body, store, currentTime) ==
  LET order_id == Member(body, "order_id")
      status == Member(body, "status")
      updated ==
        [store EXCEPT ![order_id.msg] =
           [status |-> status, statusCode |-> Member(body, "status_code"),
            bankTransactionId |-> Member(body, "transaction_id"),
            ipnReceivedAt |-> JsText(ToISOString(currentTime)), ipnData |-> body]]
      unchanged(answer) ==
        [answer |-> answer, applied |-> FALSE, transactions |-> store]
  IN IF Falsy(order_id) \/ Falsy(status)
     THEN unchanged(Answer(400, FALSE, "Invalid IPN data"))
     ELSE IF "getByOrderId" \notin TransactionStoreMethods
     THEN unchanged(Answer(200, FALSE, "IPN processing error"))
     ELSE IF order_id.msg \notin DOMAIN store
     THEN unchanged(Answer(200, TRUE, "IPN received but transaction not found"))
     ELSE [answer |-> Answer(200, TRUE, "IPN processed successfully"), applied |-> TRUE,
           transactions |-> updated]

IpnOrderIds == {Undefined, JsText("ORDER-12345"), JsText("ORDER-99999")}
IpnStatuses == {Undefined, JsText("SUCCESS"), JsText("FAILED"), JsText(" ")}

\* the JSON body of a callback
IpnBody(orderId, status) ==
  ObjectBody(<<PropOf("order_id", orderId), PropOf("status", status),
               Prop("status_code", "string", "1000"),
               Prop("transaction_id", "string", "TXN-1")>>)

\* a callback is posted to /api/payment/ipn: sanitizeInput, then the handler
PostIpn(signature, body) ==
  /\ \E clean \in {sanitizeInput(body)} :
       \E result \in {ipnHandler(clean, transactions, now)} :
         /\ ipn' = [handled |-> TRUE, signature |-> signature, body |-> clean,
                    status |-> result.answer.status, success |-> result.answer.success,
                    message |-> result.answer.message, applied |-> result.applied,
                    verification |-> "not performed"]
         /\ transactions' = result.transactions
  /\ UNCHANGED <<now, verifierVars, clientVars, signerVars, exchange, verify, phpVars>>

(***************************************************************************)
(* POST /api/payment/verify                                                *)
(***************************************************************************)
\* validateMerchant: the x-merchant-id header is required
validateMerchant(merchantId) ==
  IF Falsy(merchantId) THEN Reject(401, "Merchant ID is required", "MISSING_MERCHANT_ID")
  ELSE CallNext

\* !v || typeof v !== 'string'
NotAString(v) == Falsy(v) \/ v.tag # "text"

\* validatePaymentVerification: the errors it collects for a body
validatePaymentVerification(body) ==
  (IF NotAString(Member(body, "orderId"))
   THEN <<"orderId is required and must be a string">> ELSE << >>)
  \o
  (IF NotAString(Member(body, "orderTrackingId"))
   THEN <<"orderTrackingId is required and must be a string">> ELSE << >>)

\* what gatewayClient.verifyPayment resolves to: a failure, a success without
\* transaction_info, a success that names an order and its status
GatewayResponses ==
  {[success |-> FALSE, statusCode |-> 401, message |-> "Verification failed",
    orderId |-> Undefined, status |-> Undefined],
   [success |-> TRUE, statusCode |-> 200, message |-> "", orderId |-> Undefined,
    status |-> Undefined],
   [success |-> TRUE, statusCode |-> 200, message |-> "",
    orderId |-> JsText("ORDER-12345"), status |-> JsText("APPROVED")]}

\* the handler of POST /api/payment/verify for a validated body and the
\* gateway's response: its answer and the transactions afterwards
verifyHandler(body, gatewayResponse, store) ==
  LET orderId == gatewayResponse.orderId
      unchanged(answer) == [answer |-> answer, transactions |-> store]
  IN IF ~gatewayResponse.success
     THEN unchanged(Answer(gatewayResponse.statusCode, FALSE, gatewayResponse.message))
     ELSE IF Falsy(orderId)
     THEN unchanged(Answer(200, TRUE, ""))
     ELSE IF "getByOrderId" \notin TransactionStoreMethods
     THEN unchanged(Answer(500, FALSE,
                           "Internal server error during payment verification"))
     ELSE IF orderId.msg \notin DOMAIN store
     THEN unchanged(Answer(200, TRUE, ""))
     ELSE [answer |-> Answer(200, TRUE, ""),
           transactions |->
             [store EXCEPT ![orderId.msg].status =
                OrElse(gatewayResponse.status, JsText("UNKNOWN"))]]

\* a request is posted to /api/payment/verify: validateMerchant,
\* sanitizeInput, validatePaymentVerification, then the handler, which
\* awaits gatewayClient.verifyPayment({paymentOrderId})
PostVerify(merchantId, body, gatewayResponse) ==
  /\ \E clean \in {sanitizeInput(body)} :
       \E errors \in {validatePaymentVerification(clean)} :
         \E result \in {verifyHandler(clean, gatewayResponse, transactions)} :
           LET answered(reached, status, success, message) ==
                 [handled |-> TRUE, merchantId |-> merchantId, body |-> clean,
                  errors |-> IF Falsy(merchantId) THEN << >> ELSE errors,
                  reached |-> reached,
                  paymentOrderId |->
                    IF reached THEN Member(clean, "paymentOrderId") ELSE Undefined,
                  status |-> status, success |-> success, message |-> message]
           IN IF ~validateMerchant(merchantId).passed
              THEN /\ verify' = answered(FALSE, 401, FALSE, "Merchant ID is required")
                   /\ UNCHANGED transactions
              ELSE IF errors # << >>
              THEN /\ verify' = answered(FALSE, 400, FALSE, "Validation failed")
                   /\ UNCHANGED transactions
              ELSE /\ verify' = answered(TRUE, result.answer.status,
                                         result.answer.success, result.answer.message)
                   /\ transactions' = result.transactions
  /\ UNCHANGED <<now, verifierVars, clientVars, signerVars, exchange, ipn, phpVars>>

VerifyMerchantIds == {Undefined, JsText(""), JsText("test-merchant-001")}
VerifyOrderIds == {Undefined, JsText("ORDER-12345"), JsText(" "), JsNumber("5")}
VerifyTrackingIds == {Undefined, JsText("TRK-1"), JsNumber("7")}
VerifyPaymentOrderIds == {Undefined, JsText("test-payment-order-123"), JsText("")}

\* the JSON body of a verification request
VerifyRequestBody(orderId, orderTrackingId, paymentOrderId) ==
  ObjectBody(<<PropOf("orderId", orderId), PropOf("orderTrackingId", orderTrackingId),
               PropOf("paymentOrderId", paymentOrderId)>>)

NextVerify ==
  \E merchantId \in VerifyMerchantIds, orderId \in VerifyOrderIds,
     orderTrackingId \in VerifyTrackingIds, paymentOrderId \in VerifyPaymentOrderIds,
     gatewayResponse \in GatewayResponses :
    PostVerify(merchantId, VerifyRequestBody(orderId, orderTrackingId, paymentOrderId),
               gatewayResponse)

InitServer ==
  /\ now = 0
  /\ InitVerifierIdle
  /\ InitClientIdle
  /\ InitSignerIdle
  /\ InitServerIdle

NextServer ==
  \/ \E body \in {OrderA, OrderASwapped}, nodeEnv \in NodeEnvs :
       \E signature \in XSignatures(body) : HandleRequest(signature, body, nodeEnv)
  \/ \E orderId \in IpnOrderIds, status \in IpnStatuses :
       \E signature \in {Undefined, JsText(Garbage64),
                           ServiceGenerateSignature(IpnBody(orderId, status))} :
         PostIpn(signature, IpnBody(orderId, status))

SpecServer == InitServer /\ [][NextServer]_vars

SpecVerify == InitServer /\ [][NextVerify]_vars

(***************************************************************************)
(* PHP gateway: RateLimit                                                  *)
(***************************************************************************)
\* the PHP processes that may serve requests at the same time
PhpProcs == {1, 2}

\* checkLimit($key, $maxRequests, $windowSeconds) for one limit key and one
\* client: the limiters the model runs, with small limits and windows
Limiters ==
  {[maxRequests |-> 1, windowSeconds |-> 1], [maxRequests |-> 2, windowSeconds |-> 2]}

\* time(), in seconds
PhpTime == now \div 1000

\* the clock of the PHP gateway advances by a second
PhpTick ==
  /\ PhpTime < MaxSeconds
  /\ now' = now + 1000
  /\ UNCHANGED <<verifierVars, clientVars, signerVars, exchange, transactions, ipn,
                 verify, phpVars>>

RECURSIVE Filter(_, _, _)
\* array_filter: the timestamps less than windowSeconds old
Filter(limits, currentTime, windowSeconds) ==
  IF limits = << >> THEN << >>
  ELSE IF currentTime - Head(limits) < windowSeconds
  THEN <<Head(limits)>> \o Filter(Tail(limits), currentTime, windowSeconds)
  ELSE Filter(Tail(limits), currentTime, windowSeconds)

RECURSIVE Min(_)
\* min($limits)
Min(limits) ==
  IF Len(limits) = 1 THEN Head(limits)
  ELSE LET rest == Min(Tail(limits))
       IN IF Head(limits) < rest THEN Head(limits) ELSE rest

\* max(1, $retryAfter)
Max1(retryAfter) == IF retryAfter > 1 THEN retryAfter ELSE 1

NoLimiterAnswer ==
  [answered |-> FALSE, admitted |-> FALSE, retryAfter |-> 0, fileBefore |-> << >>,
   fileAfter |-> << >>]

\* no request has come in: no rate limit file exists
InitLimiter ==
  /\ now = 0
  /\ InitVerifierIdle
  /\ InitClientIdle
  /\ InitSignerIdle
  /\ exchange = NoExchange
  /\ transactions = InitialTransactions
  /\ ipn = NoIpn
  /\ verify = NoVerify
  /\ dbFile = << >>
  /\ storeProcs = << >>
  /\ storeLog = << >>
  /\ limitsFile = << >>
  /\ limiterProcs = [p \in PhpProcs |-> [pc |-> "idle", limits |-> << >>]]
  /\ \E limiter \in Limiters :
       limiterLog = [limiter |-> limiter, calls |-> 0, admitted |-> << >>,
                     last |-> NoLimiterAnswer]

\* checkLimit, first step: $limits = $this->getLimits($limitFile)
GetLimits(p) ==
  /\ limiterProcs[p].pc = "idle"
  /\ limiterLog.calls < MaxCalls
  /\ limiterProcs' = [limiterProcs EXCEPT ![p] = [pc |-> "read", limits |-> limitsFile]]
  /\ limiterLog' = [limiterLog EXCEPT !.calls = @ + 1]
  /\ UNCHANGED <<now, verifierVars, clientVars, signerVars, exchange, transactions,
                 ipn, verify, dbFile, storeProcs, storeLog, limitsFile>>

\* checkLimit, the rest: the old requests are dropped from $limits; with
\* maxRequests of them left the request is rejected, else the current time
\* is added and $limits is written to the file
CheckLimit(p) ==
  /\ limiterProcs[p].pc = "read"
  /\ \E limits \in {Filter(limiterProcs[p].limits, PhpTime,
                            limiterLog.limiter.windowSeconds)} :
       IF Len(limits) >= limiterLog.limiter.maxRequests
       THEN /\ limiterLog' =
                 [limiterLog EXCEPT
                    !.last = [answered |-> TRUE, admitted |-> FALSE,
                              retryAfter |->
                                Max1(Min(limits) + limiterLog.limiter.windowSeconds
                                       - PhpTime),
                              fileBefore |-> limitsFile, fileAfter |-> limitsFile]]
            /\ UNCHANGED limitsFile
       ELSE /\ limitsFile' = limits \o <<PhpTime>>
            /\ limiterLog' =
                 [limiterLog EXCEPT
                    !.admitted = @ \o <<PhpTime>>,
                    !.last = [answered |-> TRUE, admitted |-> TRUE, retryAfter |-> 0,
                              fileBefore |-> limitsFile,
                              fileAfter |-> limits \o <<PhpTime>>]]
  /\ limiterProcs' = [limiterProcs EXCEPT ![p] = [pc |-> "idle", limits |-> << >>]]
  /\ UNCHANGED <<now, verifierVars, clientVars, signerVars, exchange, transactions,
                 ipn, verify, dbFile, storeProcs, storeLog>>

NextLimiter ==
  \/ PhpTick
  \/ \E p \in PhpProcs : GetLimits(p)
  \/ \E p \in PhpProcs : CheckLimit(p)

SpecLimiter == InitLimiter /\ [][NextLimiter]_vars

(***************************************************************************)
(* PHP gateway: the Transaction model and the routes that write to it      *)
(***************************************************************************)
\* payment order ids the gateway hands out, and the order each belongs to
PaymentOrderIds == {"PO-1", "PO-2"}
OrderOf(id) == IF id = "PO-1" THEN "ORDER-12345" ELSE "ORDER-67890"

\* !$value for the values of a request body: null, '' and '0' are falsy
PhpFalsy(v) == Falsy(v) \/ v = JsText("0")

\* Validator::sanitizeInput: strings are trimmed, arrays recursively
PhpSanitizeInput(body) == sanitizeInput(body)

\* Transaction::findByOrderId on the contents of the file: the first
\* transaction of the order, or none
FindByOrderId(file, orderId) == {id \in DOMAIN file : file[id].orderId = orderId}

IdleProc ==
  [pc |-> "idle", op |-> "", route |-> "", id |-> "", status |-> "",
   body |-> UndefinedBody, transactions |-> << >>]

\* a PHP process that enters Transaction::create or Transaction::update
Entering(op, route, id, status, body) ==
  [pc |-> "getAll", op |-> op, route |-> route, id |-> id, status |-> status,
   body |-> body, transactions |-> << >>]

\* the empty transactions.json
InitStore ==
  /\ now = 0
  /\ InitVerifierIdle
  /\ InitClientIdle
  /\ InitSignerIdle
  /\ exchange = NoExchange
  /\ transactions = InitialTransactions
  /\ ipn = NoIpn
  /\ verify = NoVerify
  /\ limitsFile = << >>
  /\ limiterProcs = << >>
  /\ limiterLog = << >>
  /\ dbFile = << >>
  /\ storeProcs = [p \in PhpProcs |-> IdleProc]
  /\ storeLog = [calls |-> 0, begun |-> {}, created |-> {}, updated |-> << >>]

\* createPayment, once the gateway created the order: the transaction is
\* built, with the gateway's order_status or 'PENDING', and
\* Transaction::create is entered
CreatePayment(p, id, orderStatus) ==
  /\ storeProcs[p].pc = "idle"
  /\ storeLog.calls < MaxCalls
  /\ id \notin storeLog.begun
  /\ storeProcs' =
       [storeProcs EXCEPT
          ![p] = Entering("create", "create", id, OrElse(orderStatus, JsText("PENDING")).msg,
                          UndefinedBody)]
  /\ storeLog' = [storeLog EXCEPT !.calls = @ + 1, !.begun = @ \cup {id}]
  /\ UNCHANGED <<now, verifierVars, clientVars, signerVars, exchange, transactions,
                 ipn, verify, dbFile, limitsFile, limiterProcs, limiterLog>>

\* res.json of handleIPN
IpnAnswer(body, status, success, message, applied) ==
  [handled |-> TRUE, signature |-> Undefined, body |-> body, status |-> status,
   success |-> success, message |-> message, applied |-> applied,
   verification |-> "not performed"]

\* handleIPN up to the call of Transaction::update: the body is sanitized,
\* order_id and status are required, the transaction is looked up
HandleIPN(p, body) ==
  /\ storeProcs[p].pc = "idle"
  /\ storeLog.calls < MaxCalls
  /\ storeLog' = [storeLog EXCEPT !.calls = @ + 1]
  /\ \E clean \in {PhpSanitizeInput(body)} :
       LET orderId == Member(clean, "order_id")
           status == Member(clean, "status")
       IN IF PhpFalsy(orderId) \/ PhpFalsy(status)
          THEN /\ ipn' = IpnAnswer(clean, 400, FALSE, "Invalid IPN data", FALSE)
               /\ UNCHANGED storeProcs
          ELSE IF FindByOrderId(dbFile, orderId.msg) = {}
          THEN /\ ipn' = IpnAnswer(clean, 200, TRUE,
                                   "IPN received but transaction not found", FALSE)
               /\ UNCHANGED storeProcs
          ELSE /\ \E id \in FindByOrderId(dbFile, orderId.msg) :
                    storeProcs' =
                      [storeProcs EXCEPT
                         ![p] = Entering("update", "ipn", id, status.msg, clean)]
               /\ UNCHANGED ipn
  /\ UNCHANGED <<now, verifierVars, clientVars, signerVars, exchange, transactions,
                 verify, dbFile, limitsFile, limiterProcs, limiterLog>>

\* verifyPayment, once the gateway answered: with a transaction_info that
\* names a stored order, Transaction::update is entered with its status, or
\* 'UNKNOWN'
VerifyPayment(p, gatewayResponse) ==
  /\ storeProcs[p].pc = "idle"
  /\ storeLog.calls < MaxCalls
  /\ gatewayResponse.success
  /\ ~PhpFalsy(gatewayResponse.orderId)
  /\ \E id \in FindByOrderId(dbFile, gatewayResponse.orderId.msg) :
       storeProcs' =
         [storeProcs EXCEPT
            ![p] = Entering("update", "verify", id,
                            OrElse(gatewayResponse.status, JsText("UNKNOWN")).msg,
                            UndefinedBody)]
  /\ storeLog' = [storeLog EXCEPT !.calls = @ + 1]
  /\ UNCHANGED <<now, verifierVars, clientVars, signerVars, exchange, transactions,
                 ipn, verify, dbFile, limitsFile, limiterProcs, limiterLog>>

\* the answer of handleIPN after Transaction::update returned
Processed(p, applied) ==
  IF storeProcs[p].route = "ipn"
  THEN IpnAnswer(storeProcs[p].body, 200, TRUE, "IPN processed successfully", applied)
  ELSE ipn

\* Transaction::create and Transaction::update, first step: getAll reads the
\* file; create adds its transaction to what was read, update merges its
\* updates into it, or returns null when the transaction is not there
GetAll(p) ==
  /\ storeProcs[p].pc = "getAll"
  /\ IF storeProcs[p].op = "create"
     THEN /\ storeProcs' =
               [storeProcs EXCEPT
                  ![p].pc = "save",
                  ![p].transactions =
                    [id \in DOMAIN dbFile \cup {storeProcs[p].id} |->
                       IF id = storeProcs[p].id
                       THEN [orderId |-> OrderOf(id), status |-> storeProcs[p].status]
                       ELSE dbFile[id]]]
          /\ UNCHANGED ipn
     ELSE IF storeProcs[p].id \notin DOMAIN dbFile
     THEN /\ storeProcs' = [storeProcs EXCEPT ![p] = IdleProc]
          /\ ipn' = Processed(p, FALSE)
     ELSE /\ storeProcs' =
               [storeProcs EXCEPT
                  ![p].pc = "save",
                  ![p].transactions =
                    [dbFile EXCEPT ![storeProcs[p].id].status = storeProcs[p].status]]
          /\ UNCHANGED ipn
  /\ UNCHANGED <<now, verifierVars, clientVars, signerVars, exchange, transactions,
                 verify, dbFile, storeLog, limitsFile, limiterProcs, limiterLog>>

\* Transaction::create and Transaction::update, second step: save writes the
\* transactions of the process to the file, and the route answers
Save(p) ==
  /\ storeProcs[p].pc = "save"
  /\ dbFile' = storeProcs[p].transactions
  /\ storeProcs' = [storeProcs EXCEPT ![p] = IdleProc]
  /\ ipn' = Processed(p, TRUE)
  /\ storeLog' =
       IF storeProcs[p].op = "create"
       THEN [storeLog EXCEPT !.created = @ \cup {storeProcs[p].id}]
       ELSE [storeLog EXCEPT
               !.updated = [id \in DOMAIN @ \cup {storeProcs[p].id} |->
                              IF id = storeProcs[p].id THEN storeProcs[p].status
                              ELSE @[id]]]
  /\ UNCHANGED <<now, verifierVars, clientVars, signerVars, exchange, transactions,
                 verify, limitsFile, limiterProcs, limiterLog>>

\* order_status of the gateway's answer to a created order
OrderStatuses == {Undefined, JsText("UNATTEMPTED")}

PhpIpnOrderIds == {Undefined, JsText("ORDER-12345"), JsText("ORDER-67890")}
PhpIpnStatuses == {Undefined, JsText("APPROVED"), JsText("PENDING")}

NextStore ==
  \/ \E p \in PhpProcs, id \in PaymentOrderIds, orderStatus \in OrderStatuses :
       CreatePayment(p, id, orderStatus)
  \/ \E p \in PhpProcs, orderId \in PhpIpnOrderIds, status \in PhpIpnStatuses :
       HandleIPN(p, IpnBody(orderId, status))
  \/ \E p \in PhpProcs, gatewayResponse \in GatewayResponses :
       VerifyPayment(p, gatewayResponse)
  \/ \E p \in PhpProcs : GetAll(p)
  \/ \E p \in PhpProcs : Save(p)

SpecStore == InitStore /\ [][NextStore]_vars

(***************************************************************************)
(* Properties of the verifying side                                        *)
(***************************************************************************)
WindowMs == DefaultMaxAgeSeconds * 1000

\* a header or credential that is absent or the empty string
AbsentOrEmpty(v) == v = Undefined \/ v = JsText("")

\* the request under validation is the signed one, unaltered
Untouched == req.present /\ tampered = ""

\* the five signed values of the signed request are all non-empty
SignedNonEmpty == \A n \in SignedNames : ~AbsentOrEmpty(Property(orig.headers, n))

\* validateSignature was called with the secret the request was signed with
RightSecret == verdict.called /\ verdict.secret = orig.secret

\* the signed request, as signed, is one that validateSignature accepts now
OrigAccepted ==
  /\ orig.present
  /\ validateSignature(orig.headers, orig.body, verdict.secret, now) = "true"

\* C1: verification round-trip. A request whose timestamp is between 0 and
\* 300 seconds old, whose five signed values are non-empty and whose
\* signature and digest headers are generateSignature of those values and
\* generateDigest of the body, is accepted by validateSignature with the
\* signing secret.
C1_RoundTrip ==
  (RightSecret /\ Untouched /\ SignedNonEmpty /\ orig.dated
     /\ now - orig.instant >= 0 /\ now - orig.instant <= WindowMs)
  => verdict.result = "true"

C1_Witness ==
  /\ RightSecret /\ Untouched /\ SignedNonEmpty /\ orig.dated
  /\ now - orig.instant = 1000
  /\ Property(req.headers, "x-tnpg-timestamp") = JsText(ToUTCString(orig.instant))
  /\ verdict.result = "true"

\* C2: header tamper detection. From an accepted request, replacing one of
\* the five signed header values, or the signature header, by a different
\* value makes validateSignature return false.
C2_HeaderTamperRejected ==
  (verdict.called /\ OrigAccepted
     /\ tampered \in SignedNames \cup {"x-tnpg-signature"}
     /\ Property(req.headers, tampered) # Property(orig.headers, tampered))
  => verdict.result = "false"

\* the timestamp was replaced by another timestamp inside the window
C2_Witness ==
  /\ verdict.called /\ OrigAccepted
  /\ tampered = "x-tnpg-timestamp"
  /\ validateTimestamp(Property(req.headers, "x-tnpg-timestamp"), now)
  /\ Property(req.headers, "x-tnpg-timestamp") # Property(orig.headers, "x-tnpg-timestamp")
  /\ verdict.result = "false"

\* C3: body tamper detection. From an accepted request, presenting the same
\* headers with a body whose JSON serialization differs (or that has none)
\* makes validateSignature return false; two bodies have the same digest
\* exactly when they have the same serialization.
C3_BodyTamperRejected ==
  /\ (verdict.called /\ OrigAccepted /\ tampered = "body"
        /\ (~req.body.defined \/ JsonStringify(req.body) # JsonStringify(orig.body)))
     => verdict.result = "false"
  /\ (req.present /\ req.body.defined /\ orig.body.defined)
     => ((generateDigest(req.body) = generateDigest(orig.body))
           <=> (JsonStringify(req.body) = JsonStringify(orig.body)))

C3_Witness ==
  /\ verdict.called /\ OrigAccepted /\ tampered = "body"
  /\ req.body.defined
  /\ JsonStringify(req.body) # JsonStringify(orig.body)
  /\ verdict.result = "false"

\* C4: replay window boundary. A timestamp exactly 300 seconds older than the
\* verifier's clock is accepted by validateTimestamp, and so is an otherwise
\* valid request by validateSignature; one 301 seconds older is rejected.
C4_WindowBoundary ==
  /\ (Untouched /\ orig.dated /\ now - orig.instant = WindowMs)
     => /\ validateTimestamp(Property(req.headers, "x-tnpg-timestamp"), now)
        /\ (RightSecret /\ SignedNonEmpty) => verdict.result = "true"
  /\ (Untouched /\ orig.dated /\ now - orig.instant = WindowMs + 1000)
     => /\ ~validateTimestamp(Property(req.headers, "x-tnpg-timestamp"), now)
        /\ verdict.called => verdict.result = "false"

C4_Witness ==
  /\ RightSecret /\ Untouched /\ SignedNonEmpty /\ orig.dated
  /\ now - orig.instant = WindowMs
  /\ verdict.result = "true"

\* C5: future-skew tolerance. A correctly signed request whose timestamp is
\* ahead of the verifier's clock by at most the replay window is accepted.
C5_FutureSkewTolerated ==
  (RightSecret /\ Untouched /\ SignedNonEmpty /\ orig.dated
     /\ orig.instant - now >= 1 /\ orig.instant - now <= WindowMs)
  => verdict.result = "true"

\* C6: stale or far-future rejection. validateSignature returns false when
\* the timestamp is more than 300 seconds old, more than 300 seconds ahead,
\* or no date, also when signature and digest are correct.
C6_OutsideWindowRejected ==
  (verdict.called /\ req.present /\ tampered # "x-tnpg-timestamp"
     /\ (\/ ~orig.dated
         \/ now - orig.instant > WindowMs
         \/ orig.instant - now > WindowMs))
  => verdict.result = "false"

\* a correctly signed request, stamped more than 300 seconds ahead
C6_Witness ==
  /\ RightSecret /\ Untouched /\ SignedNonEmpty /\ orig.dated
  /\ orig.instant - now > WindowMs
  /\ verdict.result = "false"

\* C7: missing headers. validateSignature returns false when one of the seven
\* required headers is absent or empty.
C7_MissingHeaderRejected ==
  (verdict.called /\ req.present
     /\ \E n \in RequiredNames : AbsentOrEmpty(Property(req.headers, n)))
  => verdict.result = "false"

\* an empty api key, signed as such: only the presence check rejects it
C7_Witness ==
  /\ RightSecret /\ Untouched /\ orig.dated
  /\ now - orig.instant >= 0 /\ now - orig.instant <= WindowMs
  /\ AbsentOrEmpty(Property(req.headers, "x-tnpg-api-key"))
  /\ verdict.result = "false"

\* a provided signature or digest whose length differs from the expected one
LengthMismatch ==
  /\ req.present
  /\ \/ /\ ~AbsentOrEmpty(Property(req.headers, "x-tnpg-signature"))
        /\ ByteLength(Property(req.headers, "x-tnpg-signature")) # 44
     \/ /\ ~AbsentOrEmpty(Property(req.headers, "x-tnpg-digest"))
        /\ ByteLength(Property(req.headers, "x-tnpg-digest")) # 52

\* C8: verification never throws. Every call of validateSignature returns
\* true or false, and a signature or digest of another length than the
\* expected one yields false.
C8_NeverThrows ==
  verdict.called =>
    /\ verdict.result \in {"true", "false"}
    /\ LengthMismatch => verdict.result = "false"

\* validateSignature was called without a headers object
C8_Witness ==
  /\ verdict.called
  /\ ~req.headers.defined
  /\ verdict.result = "false"

\* the request under validation is, headers and body, one that
\* validateSignature accepted before with the same secret
Replayed ==
  /\ verdict.called
  /\ seen.accepted
  /\ seen.headers = req.headers
  /\ seen.body = req.body
  /\ seen.secret = verdict.secret

\* C13: stateless verification and replay. A header set and body that
\* validateSignature accepted once are accepted again, with the same secret,
\* on every later presentation while the timestamp is at most 300 seconds
\* old; at the same clock the result is the same.
C13_ReplayAccepted ==
  (Replayed
     /\ Property(req.headers, "x-tnpg-timestamp") = Property(orig.headers, "x-tnpg-timestamp")
     /\ now - orig.instant <= WindowMs)
  => verdict.result = "true"

\* accepted when fresh, presented again when exactly 300 seconds old
C13_Witness ==
  /\ Replayed
  /\ seen.at < now
  /\ now - orig.instant = WindowMs
  /\ verdict.result = "true"

(***************************************************************************)
(* Properties of the signing side                                          *)
(***************************************************************************)
GeneratedNames ==
  {"X-TNPG-TIMESTAMP", "X-TNPG-HOST", "X-TNPG-TARGET-API", "X-TNPG-MERCHANT-ID",
   "X-TNPG-API-KEY", "X-TNPG-SIGNATURE", "X-TNPG-DIGEST", "Content-Type"}

\* one of the three credentials of a configuration is empty or absent
CredentialMissing(c) == AbsentOrEmpty(c.merchantId) \/ AbsentOrEmpty(c.apiKey) \/ AbsentOrEmpty(c.apiSecret)

\* C9: configuration precondition. generateGatewayHeaders throws, and returns
\* no header set, when merchantId, apiKey or apiSecret is empty or absent;
\* a header set it returns carries a signature keyed with a non-empty secret.
C9_ConfigPrecondition ==
  lastGen.called =>
    /\ CredentialMissing(lastGen.config)
       => (lastGen.result.threw /\ ~lastGen.result.headers.defined)
    /\ ~lastGen.result.threw
       => LET signature == Property(lastGen.result.headers, "X-TNPG-SIGNATURE")
          IN signature.tag = "hmac-sha256-base64" /\ signature.key # ""

\* the api secret alone is the empty string
C9_Witness ==
  /\ lastGen.called
  /\ lastGen.config.apiSecret = JsText("")
  /\ ~AbsentOrEmpty(lastGen.config.merchantId) /\ ~AbsentOrEmpty(lastGen.config.apiKey)
  /\ lastGen.result.threw
  /\ lastGen.result.error = "API_SECRET is required for gateway authentication"

\* C10: no unsigned request is sent. A request posted upstream carries the
\* complete header set generateGatewayHeaders returned for that call; with a
\* credential missing nothing is posted and the call resolves, without
\* throwing, to a result with success false.
C10_NoUnsignedRequest ==
  /\ sent.posted =>
       /\ sent.headers.defined
       /\ DOMAIN sent.headers.map = GeneratedNames
       /\ \A n \in GeneratedNames : ~AbsentOrEmpty(Property(sent.headers, n))
       /\ Return(sent.headers) =
            generateGatewayHeaders(Endpoint(sent.op), sent.body, getAuthConfig(cfg),
                                   sent.at)
       /\ ~CredentialMissing(cfg)
  /\ CredentialMissing(cfg) =>
       /\ ~sent.posted
       /\ \A op \in Ops : pending[op] = 0
       /\ lastGen.called =>
            /\ outcome.settled = "resolved"
            /\ outcome.op = lastGen.op
            /\ outcome.success = FALSE

C10_Witness ==
  /\ AbsentOrEmpty(cfg.apiKey) /\ ~AbsentOrEmpty(cfg.merchantId) /\ ~AbsentOrEmpty(cfg.apiSecret)
  /\ lastGen.called /\ lastGen.op = "verifyPayment"
  /\ outcome.settled = "resolved" /\ outcome.op = "verifyPayment"
  /\ outcome.success = FALSE /\ outcome.statusText = "NETWORK_ERROR"
  /\ ~sent.posted

\* a step in which one of the client's three operations is called
ClientCall ==
  \/ \E orderData \in OrderDatas : createPaymentOrder(orderData)
  \/ \E verificationData \in VerificationDatas : verifyPayment(verificationData)
  \/ \E inquiryData \in InquiryDatas : inquirePayment(inquiryData)

\* C15: fresh header set per call. Two successive calls of
\* generateGatewayHeaders that both return a header set return different
\* X-TNPG-TIMESTAMP values and different X-TNPG-SIGNATURE values.
C15_FreshHeaders ==
  [][(ClientCall /\ lastGen.called /\ ~lastGen.result.threw /\ ~lastGen'.result.threw)
     => /\ Property(lastGen'.result.headers, "X-TNPG-TIMESTAMP")
             # Property(lastGen.result.headers, "X-TNPG-TIMESTAMP")
        /\ Property(lastGen'.result.headers, "X-TNPG-SIGNATURE")
             # Property(lastGen.result.headers, "X-TNPG-SIGNATURE")]_vars

RECURSIVE Literals(_)
\* the texts of all string and number values of an object, nested ones too
Literals(props) ==
  IF props = << >> THEN {}
  ELSE (CASE Head(props).type = "object" -> Literals(Head(props).obj)
          [] Head(props).type = "undefined" -> {}
          [] OTHER -> {Head(props).lit})
       \cup Literals(Tail(props))

\* the header set generateGatewayHeaders returns for the posted request
\* under the same configuration with another api secret
WithOtherSecret ==
  generateGatewayHeaders(Endpoint(sent.op), sent.body,
                         [getAuthConfig(cfg) EXCEPT !.apiSecret = JsText("sk_other")],
                         sent.at).headers

\* C16: secret confidentiality. In a request posted upstream the api secret
\* is the key of the signature's HMAC and nothing else: no header value and
\* no body field is the secret, and every header but X-TNPG-SIGNATURE is the
\* same as under a configuration that differs only in its api secret.
C16_SecretConfidential ==
  sent.posted =>
    /\ Property(sent.headers, "X-TNPG-SIGNATURE").tag = "hmac-sha256-base64"
    /\ Property(sent.headers, "X-TNPG-SIGNATURE").key = TemplateStr(cfg.apiSecret)
    /\ \A n \in DOMAIN sent.headers.map :
         /\ sent.headers.map[n] # cfg.apiSecret
         /\ n # "X-TNPG-SIGNATURE" => sent.headers.map[n].key = ""
    /\ TemplateStr(cfg.apiSecret) \notin Literals(sent.body.props)
    /\ \A other \in {WithOtherSecret} :
         /\ DOMAIN other.map = DOMAIN sent.headers.map
         /\ \A n \in DOMAIN sent.headers.map :
              (other.map[n] = sent.headers.map[n]) <=> (n # "X-TNPG-SIGNATURE")

\* an inquiry, whose body carries the merchant id, was posted
C16_Witness ==
  /\ sent.posted /\ sent.op = "inquirePayment"
  /\ cfg.apiSecret = JsText("sk_test_secret456")
  /\ "test-merchant-001" \in Literals(sent.body.props)
  /\ Property(sent.headers, "X-TNPG-SIGNATURE").key = "sk_test_secret456"

\* the configuration names no host, or a blank one
HostMissing(c) == ~c.host.defined \/ c.host.chars = << >>

\* C20: host is required. generateGatewayHeaders throws when config.host is
\* blank or absent.
C20_HostRequired ==
  (lastGen.called /\ HostMissing(lastGen.config)) => lastGen.result.threw

(***************************************************************************)
(* Properties of signing and verifying together                            *)
(***************************************************************************)
\* the secret the server holds for a merchant id: the test configuration's
\* for its merchant, another one for the other merchant
StoredSecret(merchantId) ==
  IF merchantId = JsText("test-merchant-001") THEN JsText("sk_test_secret456")
  ELSE JsText("sk_other")

\* C12: secret bound to the asserted merchant. validateSignature accepts a
\* request only when its signature was computed with the secret stored for
\* the merchant id asserted in x-tnpg-merchant-id.
C12_SecretBoundToMerchant ==
  (verdict.called /\ verdict.result = "true" /\ Untouched)
  => orig.secret = StoredSecret(Property(req.headers, "x-tnpg-merchant-id"))

\* the presented header object is the one generateGatewayHeaders returned
Generated == Untouched /\ DOMAIN req.headers.map = GeneratedNames

\* C14: case-insensitive header lookup. The header object returned by
\* generateGatewayHeaders, passed unchanged to validateSignature with the
\* same body and secret within the replay window, is accepted.
C14_GeneratedHeadersAccepted ==
  (RightSecret /\ Generated /\ now - orig.instant >= 0 /\ now - orig.instant <= WindowMs)
  => verdict.result = "true"

(***************************************************************************)
(* Properties of the signature string                                      *)
(***************************************************************************)
\* C11: signature sensitivity without delimiter ambiguity. Under one secret,
\* two different tuples (timestamp, host, targetApi, merchantId, apiKey)
\* never yield the same signature.
C11_SignatureInjective ==
  (signing.called /\ signing.first # signing.second)
  => signing.sigFirst # signing.sigSecond

(***************************************************************************)
(* Properties of the gateway server                                        *)
(***************************************************************************)
\* what the caller of a route behind the signature middleware is answered
ResponseOf(e) == [status |-> e.status, success |-> e.success, message |-> e.message,
                  error |-> e.error]

\* the request carried an X-Signature, and not the right one for its body
BadXSignature ==
  /\ exchange.handled
  /\ ~AbsentOrEmpty(exchange.signature)
  /\ exchange.signature # ServiceGenerateSignature(exchange.body)

\* C17: generic rejection. The answer of the signature middleware to a
\* request with a bad X-Signature is the one it gives to a wrong signature
\* of the expected length, whatever is wrong with the signature.
C17_GenericRejection ==
  BadXSignature
  => /\ ~exchange.passed
     /\ ResponseOf(exchange) =
          ResponseOf(MiddlewareValidateSignature(JsText(Garbage64), exchange.body,
                                                 exchange.nodeEnv))

\* C18: IPN acknowledgement. Every callback the IPN handler handles is
\* answered with HTTP 200.
C18_IpnAlwaysAcknowledged == ipn.handled => ipn.status = 200

\* C19: IPN authenticity. The IPN handler puts the status of a callback on
\* a stored transaction, or answers 'IPN processed successfully', only for a
\* callback whose signature it verified.
C19_IpnAuthentic ==
  (ipn.handled /\ (ipn.applied \/ ipn.message = "IPN processed successfully"))
  => /\ ipn.verification = "passed"
     /\ ServiceValidateSignature(ipn.body, ipn.signature) = "true"

\* C27: IPN applies the notified status. After the IPN handler handled a
\* callback with non-empty order_id and status for a stored order, the
\* stored transaction has the callback's status and the answer is HTTP 200,
\* success true, 'IPN processed successfully'.
C27_IpnAppliesStatus ==
  (ipn.handled /\ ~AbsentOrEmpty(Member(ipn.body, "order_id"))
     /\ ~AbsentOrEmpty(Member(ipn.body, "status"))
     /\ Member(ipn.body, "order_id").msg \in StoredOrders)
  => /\ transactions[Member(ipn.body, "order_id").msg].status = Member(ipn.body, "status")
     /\ ipn.status = 200
     /\ ipn.success
     /\ ipn.message = "IPN processed successfully"

\* the body of the verification request has a paymentOrderId and nothing else
OnlyPaymentOrderId ==
  /\ verify.body.defined
  /\ ~AbsentOrEmpty(Member(verify.body, "paymentOrderId"))
  /\ Member(verify.body, "paymentOrderId").tag = "text"
  /\ Member(verify.body, "orderId") = Undefined
  /\ Member(verify.body, "orderTrackingId") = Undefined

\* C21: verify endpoint contract. A POST /verify request with a merchant id
\* header and a body that holds only a non-empty string paymentOrderId
\* passes validatePaymentVerification and reaches
\* gatewayClient.verifyPayment({paymentOrderId}).
C21_VerifyContract ==
  (verify.handled /\ ~AbsentOrEmpty(verify.merchantId) /\ OnlyPaymentOrderId)
  => /\ verify.errors = << >>
     /\ verify.reached
     /\ verify.paymentOrderId = Member(verify.body, "paymentOrderId")

LoopbackOrPrivate(labels) ==
  \/ labels = <<<<"l", "o", "c", "a", "l", "h", "o", "s", "t">>>>
  \/ /\ labels \in Addresses
     /\ \/ labels[1] \in {<<"1", "0">>, <<"1", "2", "7">>}
        \/ labels[1] = <<"1", "7", "2">> /\ labels[2] \in {<<"1", "6">>, <<"3", "1">>}
        \/ labels[1] = <<"1", "9", "2">> /\ labels[2] = <<"1", "6", "8">>

\* C23: host derivation. A configured host that starts with 'http://' or
\* 'https://' is left unchanged; a host without scheme gets 'http://' in
\* front exactly when it is a loopback or private-range address, and
\* 'https://' otherwise.
C23_HostDerivation ==
  derived.called =>
    LET bare == Concat(Dotted(derived.labels))
    IN IF derived.scheme # << >> THEN derived.host = Concat(derived.scheme) \o bare
       ELSE IF LoopbackOrPrivate(derived.labels) THEN derived.host = "http://" \o bare
       ELSE derived.host = "https://" \o bare

\* the requests admitted in the windowSeconds seconds that start at second t
AdmittedIn(t) ==
  {i \in 1..Len(limiterLog.admitted) :
     /\ limiterLog.admitted[i] >= t
     /\ limiterLog.admitted[i] < t + limiterLog.limiter.windowSeconds}

\* C24: rate limit bound. For a limiter key and a client, the requests
\* checkLimit admits within any span of windowSeconds never exceed
\* maxRequests, whatever the sequence of requests and also when they are
\* served concurrently; a rejected request is not recorded and is answered
\* with retryAfter >= 1.
C24_RateLimitBound ==
  limiterProcs # << >> =>
    /\ \A t \in 0..MaxSeconds : Cardinality(AdmittedIn(t)) <= limiterLog.limiter.maxRequests
    /\ (limiterLog.last.answered /\ ~limiterLog.last.admitted)
         => /\ limiterLog.last.retryAfter >= 1
            /\ limiterLog.last.fileAfter = limiterLog.last.fileBefore

RECURSIVE Canonical(_, _)
\* the properties named by keys, in the order of keys, with the keys of every
\* object below them ordered too, those of objects inside arrays included
Canonical(props, keys) ==
  IF keys = << >> THEN << >>
  ELSE LET here == SelectSeq(props, LAMBDA q : q.key = Head(keys))
       IN (IF here = << >> THEN << >>
           ELSE IF here[1].type = "object"
           THEN <<[here[1] EXCEPT !.obj = Canonical(here[1].obj, KeyOrder)]>>
           ELSE IF here[1].type = "array"
           THEN <<[here[1] EXCEPT
                     !.obj = [i \in DOMAIN here[1].obj |->
                                IF here[1].obj[i].type = "object"
                                THEN [here[1].obj[i] EXCEPT
                                        !.obj = Canonical(here[1].obj[i].obj, KeyOrder)]
                                ELSE here[1].obj[i]]]>>
           ELSE <<here[1]>>)
          \o Canonical(props, Tail(keys))

\* the two payloads are equal up to the order of keys at every depth
EqualUpToKeyOrder ==
  Canonical(payloadSigning.first.props, KeyOrder)
    = Canonical(payloadSigning.second.props, KeyOrder)

\* C25: canonical key order. SignatureService.generateSignature returns the
\* same signature for two payloads that are equal up to the order of their
\* keys at any nesting depth, objects inside arrays included.
C25_CanonicalKeyOrder ==
  (payloadSigning.called /\ EqualUpToKeyOrder)
  => payloadSigning.signatures[1] = payloadSigning.signatures[2]

FinalStatuses == {"APPROVED", "DECLINED", "CANCELLED", "FAILED"}

\* the place of a status in the order status flow; -1 for a status the
\* flow does not have
StatusRank(status) ==
  IF status = "UNATTEMPTED" THEN 0
  ELSE IF status = "PENDING" THEN 1
  ELSE IF status \in FinalStatuses THEN 2
  ELSE -1

\* C26: the order status flow is monotonic. The status of a stored
\* transaction only changes forward along UNATTEMPTED -> PENDING ->
\* APPROVED/DECLINED/CANCELLED/FAILED; a final status is never changed by a
\* later IPN callback or verify response.
C26_StatusForwardOnly ==
  [][\A id \in DOMAIN dbFile \cap DOMAIN dbFile' :
       dbFile'[id].status # dbFile[id].status
       => /\ StatusRank(dbFile[id].status) >= 0
          /\ StatusRank(dbFile[id].status) < StatusRank(dbFile'[id].status)]_vars

\* C30: no lost updates in the PHP transaction store. Once the requests that
\* ran Transaction::create or Transaction::update have all completed, the
\* file holds every transaction whose creation completed, and every updated
\* transaction has the status of the update that completed last.
C30_NoLostUpdates ==
  (storeProcs # << >> /\ \A p \in PhpProcs : storeProcs[p].pc = "idle")
  => /\ \A id \in storeLog.created : id \in DOMAIN dbFile
     /\ \A id \in DOMAIN storeLog.updated :
          id \in DOMAIN dbFile /\ dbFile[id].status = storeLog.updated[id]

\* the payload verifySessionToken returned has every property of the data
\* the token was generated for
ContainsData ==
  /\ session.verified.result.tag = "payload"
  /\ \A i \in 1..Len(session.data.props) :
       \E j \in 1..Len(session.verified.result.props) :
         session.verified.result.props[j] = session.data.props[i]

\* C29: session token lifetime. verifySessionToken of a
\* generated token returns a payload containing data up to and including
\* 3600 seconds after issuance and null at any later time; a token whose
\* payload or signature segment was altered gets null; it never throws.
C29_SessionLifetime ==
  session.verified.done =>
    /\ session.verified.result.tag \in {"payload", "null"}
    /\ session.altered # "" => session.verified.result = Null
    /\ (session.altered = "" /\ session.verified.at - session.at <= SessionSeconds * 1000)
         => ContainsData
    /\ (session.altered = "" /\ session.verified.at - session.at > SessionSeconds * 1000)
         => session.verified.result = Null

====
